---- MODULE Spec2Model ----
(***************************************************************************)
(* A model of the validation-and-derivation layer of ashmatics_datamodels: *)
(* the shared format validators (common/validators.py), the clearance      *)
(* pathway classifier (fda/enums.py) and the pydantic records that run     *)
(* them at construction and on assignment (fda/clearances.py,              *)
(* fda/classifications.py, fda/manufacturers.py, common/regulators.py).    *)
(*                                                                         *)
(* A Python str is modelled as a sequence of one-character strings, so     *)
(* that upper(), strip(), startswith() and the regular expressions are     *)
(* computed character by character.  Python's None is the value None       *)
(* below, which is no sequence of characters.                              *)
(***************************************************************************)
EXTENDS Integers, Sequences, FiniteSets, TLC

VARIABLES arg, result, clearance, classification, manufacturer, outcome,
          regulator, threads, allow_list, document

vars ==
    <<arg, result, clearance, classification, manufacturer, outcome,
      regulator, threads, allow_list, document>>

-----------------------------------------------------------------------------
(* Characters and Python's str methods                                     *)

None == <<"None">>

UpperLetters ==
    <<"A","B","C","D","E","F","G","H","I","J","K","L","M",
      "N","O","P","Q","R","S","T","U","V","W","X","Y","Z">>

LowerLetters ==
    <<"a","b","c","d","e","f","g","h","i","j","k","l","m",
      "n","o","p","q","r","s","t","u","v","w","x","y","z">>

\* A decimal digit outside ASCII (ARABIC-INDIC DIGIT THREE, U+0663): one
\* character of the input, written here by its code point.
ArabicIndicThree == "U+0663"

AsciiDigits == {"0", "1", "2", "3", "4", "5", "6", "7", "8", "9"}

\* str.isspace(): the characters str.strip() removes.
Whitespace == {" ", "\n", "\t"}

IsSpace(c) == c \in Whitespace

\* \d of a str pattern: any Unicode decimal digit, not only 0-9.
IsDigit(c) == c \in AsciiDigits \cup {ArabicIndicThree}

\* [A-Z] of a pattern.
IsUpperAZ(c) == \E i \in 1..Len(UpperLetters) : UpperLetters[i] = c

UpperChar(c) ==
    IF \E i \in 1..Len(LowerLetters) : LowerLetters[i] = c
    THEN UpperLetters[CHOOSE i \in 1..Len(LowerLetters) : LowerLetters[i] = c]
    ELSE c

LowerChar(c) ==
    IF \E i \in 1..Len(UpperLetters) : UpperLetters[i] = c
    THEN LowerLetters[CHOOSE i \in 1..Len(UpperLetters) : UpperLetters[i] = c]
    ELSE c

\* str.upper() and str.lower()
Upper(s) == [i \in 1..Len(s) |-> UpperChar(s[i])]

Lower(s) == [i \in 1..Len(s) |-> LowerChar(s[i])]

\* str.strip(): drop the leading and the trailing whitespace.
Strip(s) ==
    LET keep == {i \in 1..Len(s) : ~IsSpace(s[i])}
    IN  IF keep = {} THEN <<>>
        ELSE LET lo == CHOOSE i \in keep : \A j \in keep : i <= j
                 hi == CHOOSE i \in keep : \A j \in keep : j <= i
             IN  SubSeq(s, lo, hi)

\* str.startswith(p)
StartsWith(s, p) == Len(s) >= Len(p) /\ SubSeq(s, 1, Len(p)) = p

\* A pattern's "$" after position n of s: the end of the string, or just
\* before a newline that ends the string.
AtDollar(s, n) == n = Len(s) \/ (n + 1 = Len(s) /\ s[Len(s)] = "\n")

\* re.match(r"^(prefix)\d{lo,hi}$", s) for one alternative of the prefix.
MatchPrefixDigits(s, p, lo, hi) ==
    /\ StartsWith(s, p)
    /\ \E n \in lo..hi :
          /\ Len(s) >= Len(p) + n
          /\ \A i \in (Len(p) + 1)..(Len(p) + n) : IsDigit(s[i])
          /\ AtDollar(s, Len(p) + n)

Return(v) == [kind |-> "return", value |-> v]

\* raise ValueError(f"..."): the f-string's text and the value it formats in.
Raise(text, v) == [kind |-> "raise", error |-> "ValueError", text |-> text, value |-> v]

\* raise ValueError("..."): a message that formats no value in.
RaiseText(text) == [kind |-> "raise", error |-> "ValueError", text |-> text]

-----------------------------------------------------------------------------
(* common/validators.py                                                    *)

VALID_COUNTRY_CODES ==
    {
      <<"U","S">>, <<"C","A">>, <<"M","X">>, <<"G","B">>, <<"D","E">>, <<"F","R">>,
      <<"I","T">>, <<"E","S">>, <<"N","L">>, <<"B","E">>, <<"C","H">>, <<"A","T">>,
      <<"S","E">>, <<"N","O">>, <<"D","K">>, <<"F","I">>, <<"I","E">>, <<"P","L">>,
      <<"C","Z">>, <<"P","T">>, <<"C","N">>, <<"J","P">>, <<"K","R">>, <<"I","N">>,
      <<"A","U">>, <<"N","Z">>, <<"S","G">>, <<"H","K">>, <<"T","W">>, <<"T","H">>,
      <<"M","Y">>, <<"I","D">>, <<"P","H">>, <<"V","N">>, <<"B","R">>, <<"A","R">>,
      <<"C","L">>, <<"C","O">>, <<"P","E">>, <<"I","L">>, <<"A","E">>, <<"S","A">>,
      <<"Z","A">>, <<"E","G">>
    }

MinKDigits == 6

MaxKDigits == 7

KNumberPrefixes == {<<"K">>, <<"B","K">>, <<"D","E","N">>}

\* re.match(r"^(K|BK|DEN)\d{6,7}$", s)
MatchKNumberPattern(s) ==
    \E p \in KNumberPrefixes : MatchPrefixDigits(s, p, MinKDigits, MaxKDigits)

\* validate_country_code without the upper(): a lowercase code is refused.
validate_country_code_NoUpper(value) ==
    IF value = None THEN Return(None)
    ELSE LET normalized == Strip(value)
         IN  IF Len(normalized) # 2
             THEN Raise("Invalid country code '{value}': must be exactly 2 characters",
                        value)
             ELSE IF normalized \notin VALID_COUNTRY_CODES
             THEN Raise("Invalid ISO 3166-1 country code '{value}'. Expected one of: {', '.join(sorted(VALID_COUNTRY_CODES))}",
                        value)
             ELSE Return(normalized)

\* validate_country_code looking the code up before measuring it.
validate_country_code_AllowListFirst(value) ==
    IF value = None THEN Return(None)
    ELSE LET normalized == Strip(Upper(value))
         IN  IF normalized \notin VALID_COUNTRY_CODES
             THEN Raise("Invalid ISO 3166-1 country code '{value}'. Expected one of: {', '.join(sorted(VALID_COUNTRY_CODES))}",
                        value)
             ELSE IF Len(normalized) # 2
             THEN Raise("Invalid country code '{value}': must be exactly 2 characters",
                        value)
             ELSE Return(normalized)

validate_country_code(value) ==
    IF value = None THEN Return(None)
    ELSE LET normalized == Strip(Upper(value))
         IN  IF Len(normalized) # 2
             THEN Raise("Invalid country code '{value}': must be exactly 2 characters",
                        value)
             ELSE IF normalized \notin VALID_COUNTRY_CODES
             THEN Raise("Invalid ISO 3166-1 country code '{value}'. Expected one of: {', '.join(sorted(VALID_COUNTRY_CODES))}",
                        value)
             ELSE Return(normalized)

\* validate_k_number_format without the strip(): a padded number is refused.
validate_k_number_format_NoStrip(value) ==
    IF value = None THEN Return(None)
    ELSE LET normalized == Upper(value)
         IN  IF ~MatchKNumberPattern(normalized)
             THEN Raise("Invalid 510(k) number format '{value}'. Expected K######, BK######, or DEN###### (6-7 digits)",
                        value)
             ELSE Return(normalized)

\* validate_k_number_format returning its argument, not the normalized str.
validate_k_number_format_ReturnsRaw(value) ==
    IF value = None THEN Return(None)
    ELSE LET normalized == Strip(Upper(value))
         IN  IF ~MatchKNumberPattern(normalized)
             THEN Raise("Invalid 510(k) number format '{value}'. Expected K######, BK######, or DEN###### (6-7 digits)",
                        value)
             ELSE Return(value)

validate_k_number_format(value) ==
    IF value = None THEN Return(None)
    ELSE LET normalized == Strip(Upper(value))
         IN  IF ~MatchKNumberPattern(normalized)
             THEN Raise("Invalid 510(k) number format '{value}'. Expected K######, BK######, or DEN###### (6-7 digits)",
                        value)
             ELSE Return(normalized)

ProductCodeLength == 3

\* re.match(r"^[A-Z]{3}$", s)
MatchProductCodePattern(s) ==
    /\ Len(s) >= ProductCodeLength
    /\ \A i \in 1..ProductCodeLength : IsUpperAZ(s[i])
    /\ AtDollar(s, ProductCodeLength)

\* validate_product_code without the upper(): lowercase letters are refused.
validate_product_code_NoUpper(value) ==
    IF value = None THEN Return(None)
    ELSE LET normalized == Strip(value)
         IN  IF ~MatchProductCodePattern(normalized)
             THEN Raise("Invalid product code format '{value}'. Expected 3 uppercase letters",
                        value)
             ELSE Return(normalized)

validate_product_code(value) ==
    IF value = None THEN Return(None)
    ELSE LET normalized == Strip(Upper(value))
         IN  IF ~MatchProductCodePattern(normalized)
             THEN Raise("Invalid product code format '{value}'. Expected 3 uppercase letters",
                        value)
             ELSE Return(normalized)

PmaDigits == 6

\* re.match(r"^P\d{6}$", s)
MatchPmaPattern(s) == MatchPrefixDigits(s, <<"P">>, PmaDigits, PmaDigits)

\* validate_pma_number_format with the digits of a K-number, \d{6,7}.
validate_pma_number_format_SixOrSeven(value) ==
    IF value = None THEN Return(None)
    ELSE LET normalized == Strip(Upper(value))
         IN  IF ~MatchPrefixDigits(normalized, <<"P">>, PmaDigits, PmaDigits + 1)
             THEN Raise("Invalid PMA number format '{value}'. Expected P###### (6 digits)",
                        value)
             ELSE Return(normalized)

\* validate_pma_number_format returning the digits, without the P.
validate_pma_number_format_DigitsOnly(value) ==
    IF value = None THEN Return(None)
    ELSE LET normalized == Strip(Upper(value))
         IN  IF ~MatchPmaPattern(normalized)
             THEN Raise("Invalid PMA number format '{value}'. Expected P###### (6 digits)",
                        value)
             ELSE Return(Tail(normalized))

validate_pma_number_format(value) ==
    IF value = None THEN Return(None)
    ELSE LET normalized == Strip(Upper(value))
         IN  IF ~MatchPmaPattern(normalized)
             THEN Raise("Invalid PMA number format '{value}'. Expected P###### (6 digits)",
                        value)
             ELSE Return(normalized)

-----------------------------------------------------------------------------
(* fda/enums.py                                                            *)

ClearanceType == {"PMA", "510(k)", "De Novo", "HDE", "EUA"}

\* from_k_number without the BK prefix.
from_k_number_NoBK(k_number) ==
    LET k_upper == Upper(k_number)
    IN  IF StartsWith(k_upper, <<"K">>)
        THEN Return("510(k)")
        ELSE IF StartsWith(k_upper, <<"D","E","N">>) THEN Return("De Novo")
        ELSE IF StartsWith(k_upper, <<"P">>) THEN Return("PMA")
        ELSE IF StartsWith(k_upper, <<"H">>) THEN Return("HDE")
        ELSE Raise("Cannot determine clearance type from: {k_number}", k_number)

\* from_k_number with a branch for the EUA prefix.
from_k_number_WithEUA(k_number) ==
    LET k_upper == Upper(k_number)
    IN  IF StartsWith(k_upper, <<"K">>) \/ StartsWith(k_upper, <<"B","K">>)
        THEN Return("510(k)")
        ELSE IF StartsWith(k_upper, <<"D","E","N">>) THEN Return("De Novo")
        ELSE IF StartsWith(k_upper, <<"P">>) THEN Return("PMA")
        ELSE IF StartsWith(k_upper, <<"H">>) THEN Return("HDE")
        ELSE IF StartsWith(k_upper, <<"E","U","A">>) THEN Return("EUA")
        ELSE Raise("Cannot determine clearance type from: {k_number}", k_number)

from_k_number(k_number) ==
    LET k_upper == Upper(k_number)
    IN  IF StartsWith(k_upper, <<"K">>) \/ StartsWith(k_upper, <<"B","K">>)
        THEN Return("510(k)")
        ELSE IF StartsWith(k_upper, <<"D","E","N">>) THEN Return("De Novo")
        ELSE IF StartsWith(k_upper, <<"P">>) THEN Return("PMA")
        ELSE IF StartsWith(k_upper, <<"H">>) THEN Return("HDE")
        ELSE Raise("Cannot determine clearance type from: {k_number}", k_number)

-----------------------------------------------------------------------------
(* The raw strings the validators and the classifier are applied to:       *)
(* optional padding, a head of letters, a run of digits and a tail, in     *)
(* either letter case.                                                     *)

MaxPrefixLen == 3

MaxDigits == 8

Repeat(c, n) == [i \in 1..n |-> c]

SeqsUpTo(S, n) == UNION {[1..k -> S] : k \in 0..n}

Cased(s, lower) == IF lower THEN Lower(s) ELSE s

Strings(pads, heads, digits, counts, tails, cases) ==
    {pad[1] \o Cased(h \o Repeat(d, n) \o t, lower) \o pad[2] :
        pad \in pads, h \in heads, d \in digits, n \in counts,
        t \in tails, lower \in cases}

NoPad == << <<>>, <<>> >>

Pads == {NoPad, << <<" ">>, <<>> >>, << <<"\t">>, <<"\n">> >>}

HeadLetters == {"K", "B", "D"}

Heads ==
    SeqsUpTo(HeadLetters, MaxPrefixLen)
        \cup {<<"D","E","N">>, <<"D","E">>, <<"E","N">>, <<"D","E","N","K">>,
              <<"P">>, <<"H">>, <<"X">>, <<"E","U","A">>,
              <<"U","S">>, <<"U","S","A">>, <<"B","E">>, <<"X","X">>}

DigitChars == {"7", ArabicIndicThree}

Tails == {<<>>, <<"X">>, <<" ","0">>}

RawStrings == Strings(Pads, Heads, DigitChars, 0..MaxDigits, Tails, BOOLEAN)

-----------------------------------------------------------------------------
(* Calls of the pure functions: the argument is drawn at the start, each   *)
(* action is one call and records what it returned or raised.              *)

NoCall == [fn |-> "none"]

NoRecord == [cls |-> "none"]

NoOutcome == [op |-> "none"]

\* No call of a validator is in progress.
NoThreads == <<>>

InitValidators ==
    /\ arg \in RawStrings \cup {None}
    /\ result = NoCall
    /\ clearance = NoRecord
    /\ classification = NoRecord
    /\ manufacturer = NoRecord
    /\ outcome = NoOutcome
    /\ regulator = NoRecord
    /\ threads = NoThreads
    /\ allow_list = VALID_COUNTRY_CODES
    /\ document = NoRecord

CallValidateCountryCode ==
    /\ result' = [fn |-> "validate_country_code", out |-> validate_country_code(arg)]
    /\ UNCHANGED <<document, regulator, threads, allow_list, arg, clearance, classification, manufacturer, outcome>>

CallValidateKNumberFormat ==
    /\ result' = [fn |-> "validate_k_number_format",
                  out |-> validate_k_number_format(arg)]
    /\ UNCHANGED <<document, regulator, threads, allow_list, arg, clearance, classification, manufacturer, outcome>>

\* from_k_number takes a str: None is no argument of it.
CallFromKNumber ==
    /\ arg # None
    /\ result' = [fn |-> "from_k_number", out |-> from_k_number(arg)]
    /\ UNCHANGED <<document, regulator, threads, allow_list, arg, clearance, classification, manufacturer, outcome>>

CallValidatePmaNumberFormat ==
    /\ result' = [fn |-> "validate_pma_number_format",
                  out |-> validate_pma_number_format(arg)]
    /\ UNCHANGED <<document, regulator, threads, allow_list, arg, clearance, classification, manufacturer, outcome>>

CallValidateProductCode ==
    /\ result' = [fn |-> "validate_product_code", out |-> validate_product_code(arg)]
    /\ UNCHANGED <<document, regulator, threads, allow_list, arg, clearance, classification, manufacturer, outcome>>

-----------------------------------------------------------------------------
(* common/validators.py: validate_iso_date.  A value of a date field is a  *)
(* record tagged with its Python type: NoneType, date, datetime (a         *)
(* subclass of date; seconds is its time of day) or str (chars).           *)

NoDate == [type |-> "NoneType"]

DateObj(y, m, d) == [type |-> "date", year |-> y, month |-> m, day |-> d]

DateTimeObj(y, m, d, s) ==
    [type |-> "datetime", year |-> y, month |-> m, day |-> d, seconds |-> s]

DateStr(chars) == [type |-> "str", chars |-> chars]

DigitSeq == <<"0", "1", "2", "3", "4", "5", "6", "7", "8", "9">>

\* int() of one decimal digit
DigitValue(c) ==
    IF c = ArabicIndicThree THEN 3
    ELSE (CHOOSE i \in 1..Len(DigitSeq) : DigitSeq[i] = c) - 1

\* int() of a token of digits, a leading blank skipped
RECURSIVE IntOf(_)
IntOf(t) ==
    IF t = <<>> THEN 0
    ELSE IF t[1] = " " THEN IntOf(Tail(t))
    ELSE 10 * IntOf(SubSeq(t, 1, Len(t) - 1)) + DigitValue(t[Len(t)])

InRange(c, lo, hi) ==
    \E i \in 1..Len(DigitSeq) : DigitSeq[i] = c /\ lo <= i - 1 /\ i - 1 <= hi

\* _strptime's %Y: \d\d\d\d
YearToken(t) == Len(t) = 4 /\ \A i \in 1..4 : IsDigit(t[i])

\* _strptime's %m: 1[0-2]|0[1-9]|[1-9]
MonthToken(t) ==
    \/ Len(t) = 2 /\ t[1] = "1" /\ InRange(t[2], 0, 2)
    \/ Len(t) = 2 /\ t[1] = "0" /\ InRange(t[2], 1, 9)
    \/ Len(t) = 1 /\ InRange(t[1], 1, 9)

\* _strptime's %d: 3[0-1]|[1-2]\d|0[1-9]|[1-9]| [1-9]
DayToken(t) ==
    \/ Len(t) = 2 /\ t[1] = "3" /\ InRange(t[2], 0, 1)
    \/ Len(t) = 2 /\ InRange(t[1], 1, 2) /\ IsDigit(t[2])
    \/ Len(t) = 2 /\ t[1] = "0" /\ InRange(t[2], 1, 9)
    \/ Len(t) = 1 /\ InRange(t[1], 1, 9)
    \/ Len(t) = 2 /\ t[1] = " " /\ InRange(t[2], 1, 9)

IsLeap(y) == y % 4 = 0 /\ (y % 100 # 0 \/ y % 400 = 0)

DaysInMonth(y, m) ==
    IF m = 2 THEN (IF IsLeap(y) THEN 29 ELSE 28)
    ELSE IF m \in {4, 6, 9, 11} THEN 30 ELSE 31

\* datetime(year, month, day) raises ValueError outside these ranges.
ValidYMD(y, m, d) == y >= 1 /\ m \in 1..12 /\ d >= 1 /\ d <= DaysInMonth(y, m)

\* The splits of s into three tokens around two separators sep.
Splits(s, sep) ==
    {<<i, j>> \in (1..Len(s)) \X (1..Len(s)) : i < j /\ s[i] = sep /\ s[j] = sep}

\* datetime.strptime(s, "%Y-%m-%d").date(): the dates it can return (none
\* when it raises ValueError).
ParseIso(s) ==
    {DateObj(IntOf(SubSeq(s, 1, c[1] - 1)),
             IntOf(SubSeq(s, c[1] + 1, c[2] - 1)),
             IntOf(SubSeq(s, c[2] + 1, Len(s)))) :
        c \in {x \in Splits(s, "-") :
                 /\ YearToken(SubSeq(s, 1, x[1] - 1))
                 /\ MonthToken(SubSeq(s, x[1] + 1, x[2] - 1))
                 /\ DayToken(SubSeq(s, x[2] + 1, Len(s)))
                 /\ ValidYMD(IntOf(SubSeq(s, 1, x[1] - 1)),
                             IntOf(SubSeq(s, x[1] + 1, x[2] - 1)),
                             IntOf(SubSeq(s, x[2] + 1, Len(s))))}}

\* datetime.strptime(s, "%m/%d/%Y").date()
ParseUs(s) ==
    {DateObj(IntOf(SubSeq(s, c[2] + 1, Len(s))),
             IntOf(SubSeq(s, 1, c[1] - 1)),
             IntOf(SubSeq(s, c[1] + 1, c[2] - 1))) :
        c \in {x \in Splits(s, "/") :
                 /\ MonthToken(SubSeq(s, 1, x[1] - 1))
                 /\ DayToken(SubSeq(s, x[1] + 1, x[2] - 1))
                 /\ YearToken(SubSeq(s, x[2] + 1, Len(s)))
                 /\ ValidYMD(IntOf(SubSeq(s, x[2] + 1, Len(s))),
                             IntOf(SubSeq(s, 1, x[1] - 1)),
                             IntOf(SubSeq(s, x[1] + 1, x[2] - 1)))}}

validate_iso_date(value) ==
    IF value.type = "NoneType" THEN Return(value)
    ELSE IF value.type \in {"date", "datetime"} THEN Return(value)
    ELSE IF ParseIso(value.chars) # {}
         THEN Return(CHOOSE d \in ParseIso(value.chars) : TRUE)
    ELSE IF ParseUs(value.chars) # {}
         THEN Return(CHOOSE d \in ParseUs(value.chars) : TRUE)
    ELSE Raise("Invalid date format '{value}'. Expected YYYY-MM-DD or MM/DD/YYYY",
               value)

-----------------------------------------------------------------------------
(* pydantic, as configured by AshMaticsBaseModel.model_config              *)
(* (common/base.py): str_strip_whitespace strips a str before its length   *)
(* is checked and before the field's validator runs; a field that is not   *)
(* given takes its default and is not validated; a required field that is  *)
(* not given is an error.                                                  *)

\* A keyword argument that is not given.
Missing == <<"Missing">>

MissingDate == [type |-> "missing"]

PydanticError(type) == [kind |-> "raise", error |-> "ValidationError", type |-> type]

IsError(r) == r.kind = "raise"

\* A str field with no max_length: its type, then str_strip_whitespace.
StrType(raw, required) ==
    IF raw = Missing
    THEN (IF required THEN PydanticError("missing") ELSE Return(None))
    ELSE IF raw = None
    THEN (IF required THEN PydanticError("string_type") ELSE Return(None))
    ELSE Return(Strip(raw))

\* A str field with Field(max_length=...): the stripped str is measured.
StrField(raw, required, max_length) ==
    IF IsError(StrType(raw, required)) \/ StrType(raw, required).value = None
    THEN StrType(raw, required)
    ELSE IF Len(StrType(raw, required).value) > max_length
    THEN PydanticError("string_too_long")
    ELSE StrType(raw, required)

\* Whether a field validator (mode "after") runs on r, what the field's own
\* validation returned for raw: a given None reaches it, a default does not.
RunsAfterValidator(raw, r) == ~IsError(r) /\ raw # Missing

\* The errors of a construction: one entry per failed field.
FieldErrors(fields) ==
    {[loc |-> f, type |-> IF fields[f].error = "ValueError" THEN "value_error"
                          ELSE fields[f].type] :
        f \in {g \in DOMAIN fields : IsError(fields[g])}}

-----------------------------------------------------------------------------
(* fda/clearances.py: FDA_510kClearance                                    *)

DeviceNameMaxLength == 500

DecisionCodeMaxLength == 10

\* validate_k_number without the call of validate_k_number_format.
validate_k_number_Unvalidated(v) ==
    IF v = None THEN RaiseText("k_number is required") ELSE Return(v)

\* FDA_510kClearance.validate_k_number
validate_k_number(v) ==
    LET r == validate_k_number_format(v)
    IN  IF IsError(r) THEN r
        ELSE IF r.value = None THEN RaiseText("k_number is required")
        ELSE r

\* The field k_number: str = Field(...)
Field_k_number(raw) ==
    IF RunsAfterValidator(raw, StrType(raw, TRUE))
    THEN validate_k_number(StrType(raw, TRUE).value)
    ELSE StrType(raw, TRUE)

\* The field device_name: str = Field(..., max_length=500) of FDA_ClearanceBase
Field_device_name(raw) == StrField(raw, TRUE, DeviceNameMaxLength)

\* The field decision_code: Optional[str] = Field(None, max_length=10)
Field_decision_code(raw) == StrField(raw, FALSE, DecisionCodeMaxLength)

\* FDA_510kClearance.parse_dates (mode "before"), then the Optional[date]
\* field: a datetime is a date only when its time of day is zero.
Field_decision_date(raw) ==
    IF raw = MissingDate THEN Return(NoDate)
    ELSE LET r == validate_iso_date(raw)
         IN  IF IsError(r) THEN r
             ELSE IF r.value.type = "datetime"
             THEN (IF r.value.seconds = 0
                   THEN Return(DateObj(r.value.year, r.value.month, r.value.day))
                   ELSE PydanticError("date_from_datetime_inexact"))
             ELSE r

\* A keyword argument of a construction: its value, or the mark of an
\* argument that is not given.
Get(kw, key, missing) == IF key \in DOMAIN kw THEN kw[key] ELSE missing

\* extra="ignore": a keyword argument that names no field is dropped.
ExtraForbidden_Ignored(kw, names) == {}

\* extra="forbid": a keyword argument that names no field of the model is an
\* error of the construction.  A @computed_field is a property of the
\* model, not a field of it.
ExtraForbidden(kw, names) ==
    {[loc |-> k, type |-> "extra_forbidden"] : k \in DOMAIN kw \ names}

\* A list argument that is None, and one that is not given.
NoList == [cls |-> "NoneType"]

MissingList == [cls |-> "missing"]

\* The error of a field that holds records, one of which was refused.
NestedError(errors) ==
    [kind |-> "raise", error |-> "ValidationError", type |-> "nested",
     errors |-> errors]

\* FDA_PredicateDevice.validate_k
validate_k(v) == validate_k_number_format(v)

\* FDA_PredicateDevice: k_number: Optional[str] = Field(None)
Field_predicate_k_number(raw) ==
    IF RunsAfterValidator(raw, StrType(raw, FALSE))
    THEN validate_k(StrType(raw, FALSE).value)
    ELSE StrType(raw, FALSE)

\* FDA_PredicateDevice: pma_number: Optional[str] = Field(None), which has
\* no validator.
Field_predicate_pma_number(raw) == StrType(raw, FALSE)

FDA_PredicateDevice(kw) ==
    LET fields == [k_number |-> Field_predicate_k_number(Get(kw, "k_number", Missing)),
                   pma_number |->
                       Field_predicate_pma_number(Get(kw, "pma_number", Missing))]
    IN  [errors |-> FieldErrors(fields),
         obj |-> IF FieldErrors(fields) = {} THEN
                     [cls |-> "FDA_PredicateDevice",
                      k_number |-> fields.k_number.value,
                      pma_number |-> fields.pma_number.value]
                 ELSE NoRecord]

\* predicate_devices keeping the items that validate and dropping the rest.
Field_predicate_devices_SkipsInvalid(raw) ==
    IF raw \in {MissingList, NoList} THEN Return(NoList)
    ELSE Return([cls |-> "list",
                 items |-> SelectSeq([i \in DOMAIN raw.items |->
                                         FDA_PredicateDevice(raw.items[i]).obj],
                                     LAMBDA d : d # NoRecord)])

\* The field predicate_devices: Optional[list[FDA_PredicateDevice]] =
\* Field(None), given as a list of the keyword arguments of its items.
Field_predicate_devices(raw) ==
    IF raw \in {MissingList, NoList} THEN Return(NoList)
    ELSE IF \E i \in DOMAIN raw.items : FDA_PredicateDevice(raw.items[i]).errors # {}
    THEN NestedError(UNION {FDA_PredicateDevice(raw.items[i]).errors :
                               i \in DOMAIN raw.items})
    ELSE Return([cls |-> "list",
                 items |-> [i \in DOMAIN raw.items |->
                               FDA_PredicateDevice(raw.items[i]).obj]])

ClearanceProductCodeMaxLength == 3

\* FDA_ClearanceBase.validate_product_code_field
validate_product_code_field(v) == validate_product_code(v)

\* FDA_ClearanceBase: product_code: Optional[str] = Field(None, max_length=3)
Field_clearance_product_code(raw) ==
    IF RunsAfterValidator(raw, StrField(raw, FALSE, ClearanceProductCodeMaxLength))
    THEN validate_product_code_field(
             StrField(raw, FALSE, ClearanceProductCodeMaxLength).value)
    ELSE StrField(raw, FALSE, ClearanceProductCodeMaxLength)

\* FDA_510kClearance(**kw): the record, or the errors and no record.
FDA_510kClearance(kw) ==
    LET fields == [k_number |-> Field_k_number(Get(kw, "k_number", Missing)),
                   device_name |-> Field_device_name(Get(kw, "device_name", Missing)),
                   product_code |->
                       Field_clearance_product_code(Get(kw, "product_code", Missing)),
                   decision_code |->
                       Field_decision_code(Get(kw, "decision_code", Missing)),
                   decision_date |->
                       Field_decision_date(Get(kw, "decision_date", MissingDate)),
                   predicate_devices |->
                       Field_predicate_devices(
                           Get(kw, "predicate_devices", MissingList))]
        errors == FieldErrors(fields) \cup ExtraForbidden(kw, DOMAIN fields)
    IN  [errors |-> errors,
         obj |-> IF errors = {} THEN
                     [cls |-> "FDA_510kClearance",
                      k_number |-> fields.k_number.value,
                      device_name |-> fields.device_name.value,
                      product_code |-> fields.product_code.value,
                      decision_code |-> fields.decision_code.value,
                      decision_date |-> fields.decision_date.value,
                      predicate_devices |-> fields.predicate_devices.value]
                 ELSE NoRecord]

\* @computed_field clearance_type
clearance_type(self) == from_k_number(self.k_number)

\* is_de_novo as "not a K number".
is_de_novo_NotK(self) == ~StartsWith(Upper(self.k_number), <<"K">>)

\* @computed_field is_de_novo
is_de_novo(self) == StartsWith(Upper(self.k_number), <<"D","E","N">>)

\* A str is true unless it is empty; None is false.
Truthy(s) == s # None /\ s # <<>>

\* is_cleared comparing the decision_code as stored, without upper().
is_cleared_NoUpper(self) ==
    IF Truthy(self.decision_code)
    THEN self.decision_code \in {<<"S","E","S","E">>, <<"S","E">>}
    ELSE self.decision_date # NoDate

\* is_cleared falling back to the decision_date for every rejected code.
is_cleared_DateAlways(self) ==
    \/ Truthy(self.decision_code)
          /\ Upper(self.decision_code) \in {<<"S","E","S","E">>, <<"S","E">>}
    \/ self.decision_date # NoDate

\* @computed_field is_cleared
is_cleared(self) ==
    IF Truthy(self.decision_code)
    THEN Upper(self.decision_code) \in {<<"S","E","S","E">>, <<"S","E">>}
    ELSE self.decision_date # NoDate

-----------------------------------------------------------------------------
(* A 510(k) clearance record: it is constructed from keyword arguments,    *)
(* then its fields are assigned (validate_assignment=True).                *)

ExampleKNumbers == {<<"k","2","4","0","0","0","1">>, <<"D","E","N","1","8","0","0","6","7">>, <<"I","N","V","A","L","I","D","1","2","3">>}

KFieldInputs ==
    Strings({NoPad, << <<" ">>, <<"\n">> >>},
            KNumberPrefixes \cup {<<"P">>, <<>>},
            {"7"}, (MinKDigits - 1)..MaxKDigits, {<<>>}, BOOLEAN)
        \cup ExampleKNumbers

DeviceNameInputs == {<<"T","e","s","t"," ","D","e","v","i","c","e">>}

DecisionCodeInputs ==
    {<<"S","E","S","E">>, Lower(<<"S","E","S","E">>), <<"S","E">>, <<" ","s","e">>, <<"N","S","E">>,
     <<>>, <<" "," ">>, Repeat("S", DecisionCodeMaxLength + 1)}

DateInputs ==
    {NoDate, DateObj(2024, 8, 15), DateTimeObj(2024, 8, 15, 0),
     DateTimeObj(2024, 8, 15, 3600),
     DateStr(<<"2","0","2","4","-","0","8","-","1","5">>), DateStr(<<"0","8","/","1","5","/","2","0","2","4">>), DateStr(<<"2","0","2","4","-","0","2","-","3","0">>), DateStr(<<"1","5",".","0","8",".","2","0","2","4">>)}

Kwargs510k ==
    [k_number : KFieldInputs \cup {Missing, None},
     device_name : DeviceNameInputs \cup {Missing, None},
     decision_code : DecisionCodeInputs \cup {Missing, None},
     decision_date : DateInputs \cup {MissingDate}]

Init510k ==
    /\ arg = None
    /\ result = NoCall
    /\ clearance = NoRecord
    /\ classification = NoRecord
    /\ manufacturer = NoRecord
    /\ outcome = NoOutcome
    /\ regulator = NoRecord
    /\ threads = NoThreads
    /\ allow_list = VALID_COUNTRY_CODES
    /\ document = NoRecord

Construct510k ==
    /\ outcome = NoOutcome
    /\ \E kw \in Kwargs510k :
          /\ clearance' = FDA_510kClearance(kw).obj
          /\ outcome' = [op |-> "FDA_510kClearance", kwargs |-> kw,
                         errors |-> FDA_510kClearance(kw).errors]
    /\ UNCHANGED <<document, regulator, threads, allow_list, arg, result, classification, manufacturer>>

\* __setattr__ under validate_assignment: the field is validated; on an
\* error the record keeps the value it had.
Assigned(self, field, r) ==
    IF IsError(r) THEN self ELSE [self EXCEPT ![field] = r.value]

SetattrOutcome(field, r) ==
    [op |-> "setattr", field |-> field, errors |-> FieldErrors([f \in {field} |-> r])]

\* clearance.k_number = raw
AssignKNumber(raw) ==
    /\ clearance # NoRecord
    /\ clearance' = Assigned(clearance, "k_number", Field_k_number(raw))
    /\ outcome' = SetattrOutcome("k_number", Field_k_number(raw))

SetKNumber ==
    /\ \E raw \in KFieldInputs \cup {None} : AssignKNumber(raw)
    /\ UNCHANGED <<document, regulator, threads, allow_list, arg, result, classification, manufacturer>>

SetDeviceName ==
    /\ clearance # NoRecord
    /\ \E raw \in DeviceNameInputs \cup {None} :
          /\ clearance' = Assigned(clearance, "device_name", Field_device_name(raw))
          /\ outcome' = SetattrOutcome("device_name", Field_device_name(raw))
    /\ UNCHANGED <<document, regulator, threads, allow_list, arg, result, classification, manufacturer>>

SetDecisionCode ==
    /\ clearance # NoRecord
    /\ \E raw \in DecisionCodeInputs \cup {None} :
          /\ clearance' = Assigned(clearance, "decision_code", Field_decision_code(raw))
          /\ outcome' = SetattrOutcome("decision_code", Field_decision_code(raw))
    /\ UNCHANGED <<document, regulator, threads, allow_list, arg, result, classification, manufacturer>>

SetDecisionDate ==
    /\ clearance # NoRecord
    /\ \E raw \in DateInputs :
          /\ clearance' = Assigned(clearance, "decision_date", Field_decision_date(raw))
          /\ outcome' = SetattrOutcome("decision_date", Field_decision_date(raw))
    /\ UNCHANGED <<document, regulator, threads, allow_list, arg, result, classification, manufacturer>>

Next510k ==
    \/ Construct510k
    \/ SetKNumber
    \/ SetDeviceName
    \/ SetDecisionCode
    \/ SetDecisionDate

Spec510k == Init510k /\ [][Next510k]_vars

-----------------------------------------------------------------------------
(* fda/clearances.py: FDA_PMAClearance, FDA_DeNovoClearance                *)

\* FDA_PMAClearance.validate_pma
validate_pma(v) ==
    LET r == validate_pma_number_format(v)
    IN  IF IsError(r) THEN r
        ELSE IF r.value = None THEN RaiseText("pma_number is required")
        ELSE r

\* The field pma_number: str = Field(...)
Field_pma_number(raw) ==
    IF RunsAfterValidator(raw, StrType(raw, TRUE))
    THEN validate_pma(StrType(raw, TRUE).value)
    ELSE StrType(raw, TRUE)

FDA_PMAClearance(kw) ==
    LET fields == [pma_number |-> Field_pma_number(Get(kw, "pma_number", Missing)),
                   device_name |-> Field_device_name(Get(kw, "device_name", Missing)),
                   product_code |->
                       Field_clearance_product_code(Get(kw, "product_code", Missing))]
    IN  [errors |-> FieldErrors(fields),
         obj |-> IF FieldErrors(fields) = {} THEN
                     [cls |-> "FDA_PMAClearance",
                      pma_number |-> fields.pma_number.value,
                      device_name |-> fields.device_name.value,
                      product_code |-> fields.product_code.value]
                 ELSE NoRecord]

\* validate_den without the check of the prefix.
validate_den_AnyPrefix(v) ==
    LET r == validate_k_number_format(v)
    IN  IF IsError(r) THEN r
        ELSE IF r.value = None THEN RaiseText("de_novo_number is required")
        ELSE r

\* FDA_DeNovoClearance.validate_den
validate_den(v) ==
    LET r == validate_k_number_format(v)
    IN  IF IsError(r) THEN r
        ELSE IF r.value = None THEN RaiseText("de_novo_number is required")
        ELSE IF ~StartsWith(r.value, <<"D","E","N">>)
        THEN RaiseText("De Novo number must start with 'DEN'")
        ELSE r

\* The field de_novo_number: str = Field(...)
Field_de_novo_number(raw) ==
    IF RunsAfterValidator(raw, StrType(raw, TRUE))
    THEN validate_den(StrType(raw, TRUE).value)
    ELSE StrType(raw, TRUE)

\* FDA_DeNovoClearance.validate_den(v), v: str, called as the classmethod
\* it is.
CallValidateDen ==
    /\ arg # None
    /\ result' = [fn |-> "validate_den", out |-> validate_den(arg)]
    /\ UNCHANGED <<document, regulator, threads, allow_list, arg, clearance, classification, manufacturer, outcome>>

NextValidators ==
    \/ CallValidateCountryCode
    \/ CallValidateKNumberFormat
    \/ CallFromKNumber
    \/ CallValidatePmaNumberFormat
    \/ CallValidateProductCode
    \/ CallValidateDen

SpecValidators == InitValidators /\ [][NextValidators]_vars

NewProductCodeMaxLength == 3

\* The field new_product_code: Optional[str] = Field(None, max_length=3),
\* which has no validator.
Field_new_product_code(raw) == StrField(raw, FALSE, NewProductCodeMaxLength)

FDA_DeNovoClearance(kw) ==
    LET fields == [de_novo_number |->
                       Field_de_novo_number(Get(kw, "de_novo_number", Missing)),
                   device_name |-> Field_device_name(Get(kw, "device_name", Missing)),
                   product_code |->
                       Field_clearance_product_code(Get(kw, "product_code", Missing)),
                   new_product_code |->
                       Field_new_product_code(Get(kw, "new_product_code", Missing))]
    IN  [errors |-> FieldErrors(fields),
         obj |-> IF FieldErrors(fields) = {} THEN
                     [cls |-> "FDA_DeNovoClearance",
                      de_novo_number |-> fields.de_novo_number.value,
                      device_name |-> fields.device_name.value,
                      product_code |-> fields.product_code.value,
                      new_product_code |-> fields.new_product_code.value]
                 ELSE NoRecord]

-----------------------------------------------------------------------------
(* Clearance records of the three pathways: a PMA approval, a De Novo      *)
(* grant, or a 510(k) clearance that cites predicate devices is            *)
(* constructed, then its identifiers are assigned.                         *)

PmaInputs ==
    Strings({NoPad, << <<" ">>, <<"\n">> >>}, {<<"P">>, <<"K">>, <<"P","P">>, <<>>},
            {"7"}, (PmaDigits - 1)..(PmaDigits + 1), {<<>>}, BOOLEAN)

ClearanceProductCodeInputs ==
    {<<"M","Y","N">>, <<" ","l","l","z"," ">>, <<"L","1","Z">>, <<"L","L">>}

PredicateKInputs == {<<"K","1","2","3","4","5","6">>, <<"I","N","V","A","L","I","D","1","2","3">>, None}

PredicatePmaInputs == {<<"P","2","0","0","0","0","1">>, <<"n","/","a">>}

ValidPredicate ==
    [k_number |-> <<"k","2","4","0","0","0","1">>, pma_number |-> <<"n","/","a">>]

InvalidPredicate == [k_number |-> <<"I","N","V","A","L","I","D","1","2","3">>]

PmaPredicate == [pma_number |-> <<"P","2","0","0","0","0","1">>]

PredicateListInputs ==
    {[cls |-> "list", items |-> items] :
        items \in {<<>>, <<ValidPredicate>>, <<InvalidPredicate>>, <<PmaPredicate>>,
                   <<ValidPredicate, InvalidPredicate>>,
                   <<PmaPredicate, ValidPredicate>>}}

KwargsPMA ==
    [pma_number : PmaInputs \cup {None},
     device_name : DeviceNameInputs,
     product_code : ClearanceProductCodeInputs \cup {None}]
        \cup [pma_number : PmaInputs] \cup [device_name : DeviceNameInputs]

KwargsDeNovo ==
    [de_novo_number : KFieldInputs \cup {None},
     device_name : DeviceNameInputs,
     new_product_code : ClearanceProductCodeInputs \cup {None}]
        \cup [de_novo_number : KFieldInputs]

\* Keyword arguments that give a value to a @computed_field of the record.
Derived510kInputs ==
    {[k_number |-> k, device_name |-> <<"T","e","s","t"," ","D","e","v","i","c","e">>,
          predicate_devices |-> [cls |-> "list", items |-> <<>>], clearance_type |-> <<"P","M","A">>] :
        k \in ExampleKNumbers}
        \cup {[k_number |-> k, device_name |-> <<"T","e","s","t"," ","D","e","v","i","c","e">>,
          predicate_devices |-> [cls |-> "list", items |-> <<>>], is_de_novo |-> b] :
                 k \in ExampleKNumbers, b \in BOOLEAN}
        \cup {[k_number |-> k, device_name |-> <<"T","e","s","t"," ","D","e","v","i","c","e">>,
          predicate_devices |-> [cls |-> "list", items |-> <<>>], is_cleared |-> b] :
                 k \in ExampleKNumbers, b \in BOOLEAN}

Kwargs510kPredicates ==
    [k_number : ExampleKNumbers,
     device_name : DeviceNameInputs,
     predicate_devices : PredicateListInputs \cup {NoList}]
        \cup Derived510kInputs

InitClearances ==
    /\ arg = None
    /\ result = NoCall
    /\ clearance = NoRecord
    /\ classification = NoRecord
    /\ manufacturer = NoRecord
    /\ outcome = NoOutcome
    /\ regulator = NoRecord
    /\ threads = NoThreads
    /\ allow_list = VALID_COUNTRY_CODES
    /\ document = NoRecord

ConstructPMA ==
    /\ outcome = NoOutcome
    /\ \E kw \in KwargsPMA :
          /\ clearance' = FDA_PMAClearance(kw).obj
          /\ outcome' = [op |-> "FDA_PMAClearance", kwargs |-> kw,
                         errors |-> FDA_PMAClearance(kw).errors]
    /\ UNCHANGED <<document, regulator, threads, allow_list, arg, result, classification, manufacturer>>

ConstructDeNovo ==
    /\ outcome = NoOutcome
    /\ \E kw \in KwargsDeNovo :
          /\ clearance' = FDA_DeNovoClearance(kw).obj
          /\ outcome' = [op |-> "FDA_DeNovoClearance", kwargs |-> kw,
                         errors |-> FDA_DeNovoClearance(kw).errors]
    /\ UNCHANGED <<document, regulator, threads, allow_list, arg, result, classification, manufacturer>>

Construct510kWithPredicates ==
    /\ outcome = NoOutcome
    /\ \E kw \in Kwargs510kPredicates :
          /\ clearance' = FDA_510kClearance(kw).obj
          /\ outcome' = [op |-> "FDA_510kClearance", kwargs |-> kw,
                         errors |-> FDA_510kClearance(kw).errors]
    /\ UNCHANGED <<document, regulator, threads, allow_list, arg, result, classification, manufacturer>>

SetPmaNumber ==
    /\ clearance # NoRecord
    /\ clearance.cls = "FDA_PMAClearance"
    /\ \E raw \in PmaInputs \cup {None} :
          /\ clearance' = Assigned(clearance, "pma_number", Field_pma_number(raw))
          /\ outcome' = SetattrOutcome("pma_number", Field_pma_number(raw))
    /\ UNCHANGED <<document, regulator, threads, allow_list, arg, result, classification, manufacturer>>

SetDeNovoNumber ==
    /\ clearance # NoRecord
    /\ clearance.cls = "FDA_DeNovoClearance"
    /\ \E raw \in KFieldInputs \cup {None} :
          /\ clearance' =
                Assigned(clearance, "de_novo_number", Field_de_novo_number(raw))
          /\ outcome' = SetattrOutcome("de_novo_number", Field_de_novo_number(raw))
    /\ UNCHANGED <<document, regulator, threads, allow_list, arg, result, classification, manufacturer>>

SetNewProductCode ==
    /\ clearance # NoRecord
    /\ clearance.cls = "FDA_DeNovoClearance"
    /\ \E raw \in ClearanceProductCodeInputs \cup {None} :
          /\ clearance' =
                Assigned(clearance, "new_product_code", Field_new_product_code(raw))
          /\ outcome' = SetattrOutcome("new_product_code", Field_new_product_code(raw))
    /\ UNCHANGED <<document, regulator, threads, allow_list, arg, result, classification, manufacturer>>

\* product_code is a field of FDA_ClearanceBase, so of the three records.
AssignClearanceProductCode(raw) ==
    /\ clearance # NoRecord
    /\ clearance' =
          Assigned(clearance, "product_code", Field_clearance_product_code(raw))
    /\ outcome' = SetattrOutcome("product_code", Field_clearance_product_code(raw))

SetClearanceProductCode ==
    /\ \E raw \in ClearanceProductCodeInputs \cup {None} :
          AssignClearanceProductCode(raw)
    /\ UNCHANGED <<document, regulator, threads, allow_list, arg, result, classification, manufacturer>>

SetPredicateDevices ==
    /\ clearance # NoRecord
    /\ clearance.cls = "FDA_510kClearance"
    /\ \E raw \in PredicateListInputs \cup {NoList} :
          /\ clearance' =
                Assigned(clearance, "predicate_devices", Field_predicate_devices(raw))
          /\ outcome' = SetattrOutcome("predicate_devices",
                                       Field_predicate_devices(raw))
    /\ UNCHANGED <<document, regulator, threads, allow_list, arg, result, classification, manufacturer>>

\* clearance.predicate_devices[i].k_number = raw: an assignment to a nested
\* record, validated by the nested record.
SetPredicateKNumber ==
    /\ clearance # NoRecord
    /\ clearance.cls = "FDA_510kClearance"
    /\ clearance.predicate_devices # NoList
    /\ \E i \in DOMAIN clearance.predicate_devices.items :
       \E raw \in PredicateKInputs :
          /\ clearance' =
                [clearance EXCEPT !.predicate_devices.items[i] =
                    Assigned(@, "k_number", Field_predicate_k_number(raw))]
          /\ outcome' = SetattrOutcome("k_number", Field_predicate_k_number(raw))
    /\ UNCHANGED <<document, regulator, threads, allow_list, arg, result, classification, manufacturer>>

SetPredicatePmaNumber ==
    /\ clearance # NoRecord
    /\ clearance.cls = "FDA_510kClearance"
    /\ clearance.predicate_devices # NoList
    /\ \E i \in DOMAIN clearance.predicate_devices.items :
       \E raw \in PredicatePmaInputs :
          /\ clearance' =
                [clearance EXCEPT !.predicate_devices.items[i] =
                    Assigned(@, "pma_number", Field_predicate_pma_number(raw))]
          /\ outcome' = SetattrOutcome("pma_number", Field_predicate_pma_number(raw))
    /\ UNCHANGED <<document, regulator, threads, allow_list, arg, result, classification, manufacturer>>

NextClearances ==
    \/ ConstructPMA
    \/ ConstructDeNovo
    \/ Construct510kWithPredicates
    \/ SetPmaNumber
    \/ SetDeNovoNumber
    \/ SetNewProductCode
    \/ SetClearanceProductCode
    \/ SetPredicateDevices
    \/ SetPredicateKNumber
    \/ SetPredicatePmaNumber

SpecClearances == InitClearances /\ [][NextClearances]_vars

-----------------------------------------------------------------------------
(* fda/classifications.py: FDA_DeviceClassification.  An enum field takes  *)
(* a member's value and, under use_enum_values=True, stores that value.    *)

\* FDA_DeviceClass (fda/enums.py)
CLASS_1 == <<"1">>

CLASS_2 == <<"2">>

CLASS_3 == <<"3">>

FDA_DeviceClass == {CLASS_1, CLASS_2, CLASS_3}

\* d[key] of a dict d: the entry, or KeyError when key is no key of d.
Subscript(d, key) ==
    IF key \in DOMAIN d THEN Return(d[key])
    ELSE [kind |-> "raise", error |-> "KeyError", key |-> key]

\* risk_level with a risk_map that has no entry for CLASS_3.
risk_level_NoClass3(self) ==
    Subscript((CLASS_1 :> "Low Risk") @@ (CLASS_2 :> "Moderate Risk"), self)

\* FDA_DeviceClass.risk_level
risk_level(self) ==
    Subscript((CLASS_1 :> "Low Risk") @@ (CLASS_2 :> "Moderate Risk")
                  @@ (CLASS_3 :> "High Risk"),
              self)

\* FDA_DeviceClass.regulatory_controls
regulatory_controls(self) ==
    Subscript((CLASS_1 :> <<"General Controls">>)
                  @@ (CLASS_2 :> <<"General Controls", "Special Controls">>)
                  @@ (CLASS_3 :> <<"General Controls", "Premarket Approval">>),
              self)

\* FDA_DeviceClass.typical_submission
typical_submission(self) ==
    Subscript((CLASS_1 :> "Exempt or 510(k)") @@ (CLASS_2 :> "510(k)")
                  @@ (CLASS_3 :> "PMA"),
              self)

\* SubmissionType (fda/enums.py)
SubmissionType_PMA == <<"P","M","A">>

SubmissionType ==
    {<<"5","1","0","(","k",")">>, SubmissionType_PMA, <<"D","e"," ","N","o","v","o">>,
     <<"E","x","e","m","p","t">>, <<"H","D","E">>, <<"P","D","P">>}

EnumField(raw, required, members) ==
    IF raw = Missing
    THEN (IF required THEN PydanticError("missing") ELSE Return(None))
    ELSE IF raw = None
    THEN (IF required THEN PydanticError("enum") ELSE Return(None))
    ELSE IF raw \notin members THEN PydanticError("enum")
    ELSE Return(raw)

ClassificationProductCodeMaxLength == 3

\* FDA_DeviceClassification.validate_code
validate_code(v) ==
    LET r == validate_product_code(v)
    IN  IF IsError(r) THEN r
        ELSE IF r.value = None THEN RaiseText("product_code is required")
        ELSE r

\* The field product_code: str = Field(..., max_length=3)
Field_product_code(raw) ==
    IF RunsAfterValidator(raw, StrField(raw, TRUE, ClassificationProductCodeMaxLength))
    THEN validate_code(StrField(raw, TRUE, ClassificationProductCodeMaxLength).value)
    ELSE StrField(raw, TRUE, ClassificationProductCodeMaxLength)

\* The field device_class: FDA_DeviceClass = Field(...)
Field_device_class(raw) == EnumField(raw, TRUE, FDA_DeviceClass)

\* The field submission_type_id: Optional[SubmissionType] = Field(None)
Field_submission_type_id(raw) == EnumField(raw, FALSE, SubmissionType)

FDA_DeviceClassification(kw) ==
    LET fields == [product_code |-> Field_product_code(kw.product_code),
                   device_name |-> Field_device_name(kw.device_name),
                   device_class |-> Field_device_class(kw.device_class),
                   submission_type_id |->
                       Field_submission_type_id(kw.submission_type_id)]
    IN  [errors |-> FieldErrors(fields),
         obj |-> IF FieldErrors(fields) = {} THEN
                     [cls |-> "FDA_DeviceClassification",
                      product_code |-> fields.product_code.value,
                      device_name |-> fields.device_name.value,
                      device_class |-> fields.device_class.value,
                      submission_type_id |-> fields.submission_type_id.value]
                 ELSE NoRecord]

\* @computed_field is_class_3
is_class_3(self) == self.device_class = CLASS_3

\* requires_pma from the device class alone.
requires_pma_ClassOnly(self) == self.device_class = CLASS_3

\* @computed_field requires_pma
requires_pma(self) ==
    self.device_class = CLASS_3 /\ self.submission_type_id = SubmissionType_PMA

ProductCodeInputs ==
    {<<"M","Y","N">>, <<"m","y","n">>, <<" ","l","l","z"," ">>, <<"L","L">>, <<"L","1","Z">>,
     <<"L","L","Z","Z">>}

DeviceClassInputs == FDA_DeviceClass \cup {<<"4">>}

SubmissionTypeInputs == SubmissionType \cup {<<"E","U","A">>, <<"p","m","a">>}

KwargsClassification ==
    [product_code : ProductCodeInputs \cup {Missing, None},
     device_name : DeviceNameInputs \cup {Missing},
     device_class : DeviceClassInputs \cup {Missing, None},
     submission_type_id : SubmissionTypeInputs \cup {Missing, None}]

InitClassification ==
    /\ arg = None
    /\ result = NoCall
    /\ clearance = NoRecord
    /\ classification = NoRecord
    /\ manufacturer = NoRecord
    /\ outcome = NoOutcome
    /\ regulator = NoRecord
    /\ threads = NoThreads
    /\ allow_list = VALID_COUNTRY_CODES
    /\ document = NoRecord

ConstructClassification ==
    /\ outcome = NoOutcome
    /\ \E kw \in KwargsClassification :
          /\ classification' = FDA_DeviceClassification(kw).obj
          /\ outcome' = [op |-> "FDA_DeviceClassification", kwargs |-> kw,
                         errors |-> FDA_DeviceClassification(kw).errors]
    /\ UNCHANGED <<document, regulator, threads, allow_list, arg, result, clearance, manufacturer>>

SetProductCode ==
    /\ classification # NoRecord
    /\ classification.cls = "FDA_DeviceClassification"
    /\ \E raw \in ProductCodeInputs \cup {None} :
          /\ classification' =
                Assigned(classification, "product_code", Field_product_code(raw))
          /\ outcome' = SetattrOutcome("product_code", Field_product_code(raw))
    /\ UNCHANGED <<document, regulator, threads, allow_list, arg, result, clearance, manufacturer>>

SetDeviceClass ==
    /\ classification # NoRecord
    /\ classification.cls = "FDA_DeviceClassification"
    /\ \E raw \in DeviceClassInputs \cup {None} :
          /\ classification' =
                Assigned(classification, "device_class", Field_device_class(raw))
          /\ outcome' = SetattrOutcome("device_class", Field_device_class(raw))
    /\ UNCHANGED <<document, regulator, threads, allow_list, arg, result, clearance, manufacturer>>

SetSubmissionTypeId ==
    /\ classification # NoRecord
    /\ classification.cls = "FDA_DeviceClassification"
    /\ \E raw \in SubmissionTypeInputs \cup {None} :
          /\ classification' =
                Assigned(classification, "submission_type_id",
                         Field_submission_type_id(raw))
          /\ outcome' = SetattrOutcome("submission_type_id",
                                       Field_submission_type_id(raw))
    /\ UNCHANGED <<document, regulator, threads, allow_list, arg, result, clearance, manufacturer>>

\* FDA_DeviceClass(record.device_class).risk_level: the record stores the
\* member's value (use_enum_values), which names the member.
GetRiskLevel ==
    /\ classification # NoRecord
    /\ result' = [fn |-> "risk_level", self |-> classification.device_class,
                  out |-> risk_level(classification.device_class)]
    /\ UNCHANGED <<document, regulator, threads, allow_list, arg, clearance, classification, manufacturer, outcome>>

GetRegulatoryControls ==
    /\ classification # NoRecord
    /\ result' = [fn |-> "regulatory_controls", self |-> classification.device_class,
                  out |-> regulatory_controls(classification.device_class)]
    /\ UNCHANGED <<document, regulator, threads, allow_list, arg, clearance, classification, manufacturer, outcome>>

GetTypicalSubmission ==
    /\ classification # NoRecord
    /\ result' = [fn |-> "typical_submission", self |-> classification.device_class,
                  out |-> typical_submission(classification.device_class)]
    /\ UNCHANGED <<document, regulator, threads, allow_list, arg, clearance, classification, manufacturer, outcome>>

NextClassification ==
    \/ ConstructClassification
    \/ SetProductCode
    \/ SetDeviceClass
    \/ SetSubmissionTypeId
    \/ GetRiskLevel
    \/ GetRegulatoryControls
    \/ GetTypicalSubmission

SpecClassification == InitClassification /\ [][NextClassification]_vars

-----------------------------------------------------------------------------
(* fda/manufacturers.py: FDA_ManufacturerAddress, FDA_ManufacturerResponse *)

CountryMaxLength == 2

ManufacturerNameMaxLength == 255

\* The address of a manufacturer that has none, and an address argument
\* that is not given.
NoAddress == [cls |-> "NoneType"]

MissingAddress == [cls |-> "missing"]

\* validate_country without the call of validate_country_code.
validate_country_Unvalidated(v) == Return(v)

\* FDA_ManufacturerAddress.validate_country
validate_country(v) == validate_country_code(v)

\* The field manufacturer_country: Optional[str] = Field(None, max_length=2)
Field_manufacturer_country(raw) ==
    IF RunsAfterValidator(raw, StrField(raw, FALSE, CountryMaxLength))
    THEN validate_country(StrField(raw, FALSE, CountryMaxLength).value)
    ELSE StrField(raw, FALSE, CountryMaxLength)

FDA_ManufacturerAddress(kw) ==
    LET fields == [manufacturer_country |->
                       Field_manufacturer_country(kw.manufacturer_country)]
    IN  [errors |-> FieldErrors(fields),
         obj |-> IF FieldErrors(fields) = {} THEN
                     [cls |-> "FDA_ManufacturerAddress",
                      manufacturer_country |-> fields.manufacturer_country.value]
                 ELSE NoRecord]

\* The field manufacturer_name: str = Field(..., max_length=255)
Field_manufacturer_name(raw) == StrField(raw, TRUE, ManufacturerNameMaxLength)

\* The field applicant: Optional[str] = Field(None, max_length=255)
Field_applicant(raw) == StrField(raw, FALSE, ManufacturerNameMaxLength)

\* The field address: Optional[FDA_ManufacturerAddress] = Field(None), given
\* as the keyword arguments of the nested record.
Field_address(raw) ==
    IF raw \in {MissingAddress, NoAddress} THEN Return(NoAddress)
    ELSE IF FDA_ManufacturerAddress(raw).errors # {}
    THEN [kind |-> "raise", error |-> "ValidationError", type |-> "nested",
          errors |-> FDA_ManufacturerAddress(raw).errors]
    ELSE Return(FDA_ManufacturerAddress(raw).obj)

FDA_ManufacturerResponse(kw) ==
    LET fields == [manufacturer_name |-> Field_manufacturer_name(kw.manufacturer_name),
                   applicant |-> Field_applicant(kw.applicant),
                   address |-> Field_address(kw.address)]
        errors == FieldErrors(fields) \cup ExtraForbidden(kw, DOMAIN fields)
    IN  [errors |-> errors,
         obj |-> IF errors = {} THEN
                     [cls |-> "FDA_ManufacturerResponse",
                      manufacturer_name |-> fields.manufacturer_name.value,
                      applicant |-> fields.applicant.value,
                      address |-> fields.address.value]
                 ELSE NoRecord]

\* is_us_based comparing the lowercased code with "US".
is_us_based_Lower(self) ==
    IF self.address # NoAddress /\ Truthy(self.address.manufacturer_country)
    THEN Lower(self.address.manufacturer_country) = <<"U","S">>
    ELSE FALSE

\* @computed_field is_us_based
is_us_based(self) ==
    IF self.address # NoAddress /\ Truthy(self.address.manufacturer_country)
    THEN Upper(self.address.manufacturer_country) = <<"U","S">>
    ELSE FALSE

\* applicant_is_manufacturer comparing the names without lower().
applicant_is_manufacturer_CaseSensitive(self) ==
    IF self.applicant = None THEN TRUE
    ELSE Strip(self.applicant) = Strip(self.manufacturer_name)

\* @computed_field applicant_is_manufacturer
applicant_is_manufacturer(self) ==
    IF self.applicant = None THEN TRUE
    ELSE Lower(Strip(self.applicant)) = Lower(Strip(self.manufacturer_name))

\* f"{self.manufacturer_name} (via {self.applicant})"
ViaText(manufacturer_name, applicant) ==
    manufacturer_name \o <<" ","(","v","i","a"," ">> \o applicant \o <<")">>

\* display_name naming every applicant, the manufacturer's own name included.
display_name_AlwaysVia(self) ==
    IF Truthy(self.applicant)
    THEN ViaText(self.manufacturer_name, self.applicant)
    ELSE self.manufacturer_name

\* @computed_field display_name
display_name(self) ==
    IF Truthy(self.applicant) /\ ~applicant_is_manufacturer(self)
    THEN ViaText(self.manufacturer_name, self.applicant)
    ELSE self.manufacturer_name

CountryInputs ==
    {<<"U","S">>, <<"u","s">>, <<" ","u","s","\n">>, <<"D","E">>, <<"d","e">>,
     <<"X","X">>, <<"U","S","A">>, <<"U">>, <<>>}

AddressInputs ==
    {[cls |-> "dict", manufacturer_country |-> c] :
        c \in CountryInputs \cup {Missing, None}}

ManufacturerNameInputs == {<<"A","c","m","e">>, <<" ","A","C","M","E"," ">>}

ApplicantInputs == {<<"A","c","m","e">>, <<"a","c","m","e">>, <<" ","A","C","M","E"," ">>, <<"P","a","r","e","n","t">>, <<>>}

BaseManufacturer ==
    [manufacturer_name |-> <<"A","c","m","e">>, applicant |-> <<"P","a","r","e","n","t">>,
     address |-> [cls |-> "dict", manufacturer_country |-> <<"D","E">>]]

\* Keyword arguments that give a value to a @computed_field of the record.
DerivedManufacturerInputs ==
    {[is_us_based |-> b] @@ BaseManufacturer : b \in BOOLEAN}
        \cup {[applicant_is_manufacturer |-> b] @@ BaseManufacturer : b \in BOOLEAN}
        \cup {[display_name |-> n] @@ BaseManufacturer : n \in ManufacturerNameInputs}

KwargsManufacturer ==
    [manufacturer_name : ManufacturerNameInputs \cup {Missing, None},
     applicant : ApplicantInputs \cup {Missing, None},
     address : AddressInputs \cup {MissingAddress, NoAddress}]
        \cup DerivedManufacturerInputs

InitManufacturer ==
    /\ arg = None
    /\ result = NoCall
    /\ clearance = NoRecord
    /\ classification = NoRecord
    /\ manufacturer = NoRecord
    /\ outcome = NoOutcome
    /\ regulator = NoRecord
    /\ threads = NoThreads
    /\ allow_list = VALID_COUNTRY_CODES
    /\ document = NoRecord

ConstructManufacturer ==
    /\ outcome = NoOutcome
    /\ \E kw \in KwargsManufacturer :
          /\ manufacturer' = FDA_ManufacturerResponse(kw).obj
          /\ outcome' = [op |-> "FDA_ManufacturerResponse", kwargs |-> kw,
                         errors |-> FDA_ManufacturerResponse(kw).errors]
    /\ UNCHANGED <<document, regulator, threads, allow_list, arg, result, clearance, classification>>

SetManufacturerName ==
    /\ manufacturer # NoRecord
    /\ \E raw \in ManufacturerNameInputs \cup {None} :
          /\ manufacturer' =
                Assigned(manufacturer, "manufacturer_name", Field_manufacturer_name(raw))
          /\ outcome' = SetattrOutcome("manufacturer_name", Field_manufacturer_name(raw))
    /\ UNCHANGED <<document, regulator, threads, allow_list, arg, result, clearance, classification>>

SetApplicant ==
    /\ manufacturer # NoRecord
    /\ \E raw \in ApplicantInputs \cup {None} :
          /\ manufacturer' = Assigned(manufacturer, "applicant", Field_applicant(raw))
          /\ outcome' = SetattrOutcome("applicant", Field_applicant(raw))
    /\ UNCHANGED <<document, regulator, threads, allow_list, arg, result, clearance, classification>>

SetAddress ==
    /\ manufacturer # NoRecord
    /\ \E raw \in AddressInputs \cup {NoAddress} :
          /\ manufacturer' = Assigned(manufacturer, "address", Field_address(raw))
          /\ outcome' = SetattrOutcome("address", Field_address(raw))
    /\ UNCHANGED <<document, regulator, threads, allow_list, arg, result, clearance, classification>>

\* manufacturer.address.manufacturer_country = raw: an assignment to the
\* nested record, validated by the nested record.
AssignAddressCountry(raw) ==
    /\ manufacturer # NoRecord
    /\ manufacturer.address # NoAddress
    /\ manufacturer' =
          [manufacturer EXCEPT !.address =
              Assigned(manufacturer.address, "manufacturer_country",
                       Field_manufacturer_country(raw))]
    /\ outcome' = SetattrOutcome("manufacturer_country",
                                 Field_manufacturer_country(raw))

SetAddressCountry ==
    /\ \E raw \in CountryInputs \cup {None} : AssignAddressCountry(raw)
    /\ UNCHANGED <<document, regulator, threads, allow_list, arg, result, clearance, classification>>

NextManufacturer ==
    \/ ConstructManufacturer
    \/ SetManufacturerName
    \/ SetApplicant
    \/ SetAddress
    \/ SetAddressCountry

SpecManufacturer == InitManufacturer /\ [][NextManufacturer]_vars

-----------------------------------------------------------------------------
(* fda/classifications.py: FDA_ProductCode                                 *)

ProductCodeMinLength == 3

\* FDA_ProductCode: product_code: str = Field(..., max_length=3,
\* min_length=3), then FDA_ProductCode.validate_code, which is
\* FDA_DeviceClassification.validate_code word for word.
Field_product_code_entry(raw) ==
    LET r == StrField(raw, TRUE, ClassificationProductCodeMaxLength)
    IN  IF IsError(r) THEN r
        ELSE IF Len(r.value) < ProductCodeMinLength
        THEN PydanticError("string_too_short")
        ELSE validate_code(r.value)

FDA_ProductCode(kw) ==
    LET fields == [product_code |->
                       Field_product_code_entry(Get(kw, "product_code", Missing)),
                   device_name |-> Field_device_name(Get(kw, "device_name", Missing)),
                   device_class |-> Field_device_class(Get(kw, "device_class", Missing))]
    IN  [errors |-> FieldErrors(fields),
         obj |-> IF FieldErrors(fields) = {} THEN
                     [cls |-> "FDA_ProductCode",
                      product_code |-> fields.product_code.value,
                      device_name |-> fields.device_name.value,
                      device_class |-> fields.device_class.value]
                 ELSE NoRecord]

KwargsProductCode ==
    [product_code : ProductCodeInputs \cup {None},
     device_name : DeviceNameInputs,
     device_class : {CLASS_2}]
        \cup [product_code : ProductCodeInputs]

ConstructProductCode ==
    /\ outcome = NoOutcome
    /\ \E kw \in KwargsProductCode :
          /\ classification' = FDA_ProductCode(kw).obj
          /\ outcome' = [op |-> "FDA_ProductCode", kwargs |-> kw,
                         errors |-> FDA_ProductCode(kw).errors]
    /\ UNCHANGED <<document, regulator, threads, allow_list, arg, result, clearance, manufacturer>>

SetProductCodeEntry ==
    /\ classification # NoRecord
    /\ classification.cls = "FDA_ProductCode"
    /\ \E raw \in ProductCodeInputs \cup {None} :
          /\ classification' =
                Assigned(classification, "product_code", Field_product_code_entry(raw))
          /\ outcome' = SetattrOutcome("product_code", Field_product_code_entry(raw))
    /\ UNCHANGED <<document, regulator, threads, allow_list, arg, result, clearance, manufacturer>>

-----------------------------------------------------------------------------
(* common/regulators.py: RegulatorBase and the records that extend it      *)

RegulatorCodeMaxLength == 20

RegulatorNameMaxLength == 255

RegulatorCountryMaxLength == 2

\* RegulatorBase.validate_country
validate_regulator_country(v) == validate_country_code(v)

\* The field code: str = Field(..., max_length=20)
Field_code(raw) == StrField(raw, TRUE, RegulatorCodeMaxLength)

\* The field name: str = Field(..., max_length=255)
Field_name(raw) == StrField(raw, TRUE, RegulatorNameMaxLength)

\* country_code without its validator, as in RegulatorUpdate.
Field_country_code_Unvalidated(raw) == StrField(raw, FALSE, RegulatorCountryMaxLength)

\* The field country_code: Optional[str] = Field(None, max_length=2)
Field_country_code(raw) ==
    IF RunsAfterValidator(raw, StrField(raw, FALSE, RegulatorCountryMaxLength))
    THEN validate_regulator_country(
             StrField(raw, FALSE, RegulatorCountryMaxLength).value)
    ELSE StrField(raw, FALSE, RegulatorCountryMaxLength)

RegulatorCreate(kw) ==
    LET fields == [code |-> Field_code(Get(kw, "code", Missing)),
                   name |-> Field_name(Get(kw, "name", Missing)),
                   country_code |->
                       Field_country_code(Get(kw, "country_code", Missing))]
    IN  [errors |-> FieldErrors(fields),
         obj |-> IF FieldErrors(fields) = {} THEN
                     [cls |-> "RegulatorCreate",
                      code |-> fields.code.value,
                      name |-> fields.name.value,
                      country_code |-> fields.country_code.value]
                 ELSE NoRecord]

RegulatorCodeInputs == {<<"F","D","A">>, <<" ","E","M","A"," ">>}

KwargsRegulator ==
    [code : RegulatorCodeInputs, name : RegulatorCodeInputs,
     country_code : CountryInputs \cup {None}]
        \cup [code : RegulatorCodeInputs, name : RegulatorCodeInputs]
        \cup [country_code : CountryInputs]

ConstructRegulator ==
    /\ outcome = NoOutcome
    /\ \E kw \in KwargsRegulator :
          /\ regulator' = RegulatorCreate(kw).obj
          /\ outcome' = [op |-> "RegulatorCreate", kwargs |-> kw,
                         errors |-> RegulatorCreate(kw).errors]
    /\ UNCHANGED <<document, threads, allow_list, arg, result, clearance, classification, manufacturer>>

SetCountryCode ==
    /\ regulator # NoRecord
    /\ \E raw \in CountryInputs \cup {None} :
          /\ regulator' = Assigned(regulator, "country_code", Field_country_code(raw))
          /\ outcome' = SetattrOutcome("country_code", Field_country_code(raw))
    /\ UNCHANGED <<document, threads, allow_list, arg, result, clearance, classification, manufacturer>>

SetRegulatorName ==
    /\ regulator # NoRecord
    /\ \E raw \in RegulatorCodeInputs \cup {None} :
          /\ regulator' = Assigned(regulator, "name", Field_name(raw))
          /\ outcome' = SetattrOutcome("name", Field_name(raw))
    /\ UNCHANGED <<document, threads, allow_list, arg, result, clearance, classification, manufacturer>>

-----------------------------------------------------------------------------
(* Every record that carries a regulatory identifier or a country code:    *)
(* one record is constructed, then its fields are assigned.                *)

InitRecords ==
    /\ arg = None
    /\ result = NoCall
    /\ clearance = NoRecord
    /\ classification = NoRecord
    /\ manufacturer = NoRecord
    /\ outcome = NoOutcome
    /\ regulator = NoRecord
    /\ threads = NoThreads
    /\ allow_list = VALID_COUNTRY_CODES
    /\ document = NoRecord

NextRecords ==
    \/ NextClearances
    \/ NextClassification
    \/ ConstructProductCode
    \/ SetProductCodeEntry
    \/ NextManufacturer
    \/ ConstructRegulator
    \/ SetCountryCode
    \/ SetRegulatorName

SpecRecords == InitRecords /\ [][NextRecords]_vars

-----------------------------------------------------------------------------
(* Assignments to the validated fields of a 510(k) clearance record and of *)
(* a manufacturer's address, the assigned value kept in arg.               *)

KNumberAssigned ==
    /\ \E raw \in KFieldInputs \cup {None} : AssignKNumber(raw) /\ arg' = raw
    /\ UNCHANGED <<document, regulator, threads, allow_list, result, classification, manufacturer>>

ProductCodeAssigned ==
    /\ \E raw \in ClearanceProductCodeInputs \cup {None} :
          AssignClearanceProductCode(raw) /\ arg' = raw
    /\ UNCHANGED <<document, regulator, threads, allow_list, result, classification, manufacturer>>

AddressCountryAssigned ==
    /\ \E raw \in CountryInputs \cup {None} : AssignAddressCountry(raw) /\ arg' = raw
    /\ UNCHANGED <<document, regulator, threads, allow_list, result, clearance, classification>>

NextAssignments ==
    \/ Construct510kWithPredicates
    \/ KNumberAssigned
    \/ ProductCodeAssigned
    \/ ConstructManufacturer
    \/ SetAddress
    \/ AddressCountryAssigned

SpecAssignments == InitRecords /\ [][NextAssignments]_vars

-----------------------------------------------------------------------------
(* Calls of the validators and of the classifier that run at the same      *)
(* time: each call has its argument and its locals (normalized, k_upper),  *)
(* runs statement by statement, and reads the one module global,           *)
(* VALID_COUNTRY_CODES.  The statements of different calls interleave.     *)

ThreadIds == {"t1", "t2"}

Validators ==
    {"validate_country_code", "validate_k_number_format",
     "validate_pma_number_format", "validate_product_code"}

NoOut == [kind |-> "none"]

ConcurrentArgs ==
    {None, <<" ","u","s","\n">>, <<"X","X">>, <<"u","s","a">>, <<"k","2","4","0","0","0","1">>,
     <<"P","2","0","0","0","0","1">>, <<"m","y","n">>}

\* A call that has not run its first statement.
Called(fn, value) ==
    [fn |-> fn, arg |-> value, pc |-> "called", normalized |-> None, out |-> NoOut]

Calls ==
    {Called(fn, value) : fn \in Validators, value \in ConcurrentArgs}
        \cup {Called("from_k_number", value) : value \in ConcurrentArgs \ {None}}

\* re.match(pattern, normalized) of the three format validators.
MatchesPattern(fn, normalized) ==
    CASE fn = "validate_k_number_format" -> MatchKNumberPattern(normalized)
      [] fn = "validate_pma_number_format" -> MatchPmaPattern(normalized)
      [] fn = "validate_product_code" -> MatchProductCodePattern(normalized)

FormatMessage(fn) ==
    CASE fn = "validate_k_number_format" ->
           "Invalid 510(k) number format '{value}'. Expected K######, BK######, or DEN###### (6-7 digits)"
      [] fn = "validate_pma_number_format" ->
           "Invalid PMA number format '{value}'. Expected P###### (6 digits)"
      [] fn = "validate_product_code" ->
           "Invalid product code format '{value}'. Expected 3 uppercase letters"

Finished(th, out) == [th EXCEPT !.pc = "done", !.out = out]

\* The first statements of a call keeping normalized in a module global,
\* which every call reads, and not in a local.
FirstStatement_GlobalNormalized(ths, t) ==
    IF ths[t].fn \in Validators /\ ths[t].arg = None
    THEN [ths EXCEPT ![t] = Finished(@, Return(None))]
    ELSE [u \in DOMAIN ths |->
             [ths[u] EXCEPT !.pc = IF u = t THEN "normalized" ELSE @,
                            !.normalized =
                                IF ths[t].fn = "from_k_number" THEN Upper(ths[t].arg)
                                ELSE Strip(Upper(ths[t].arg))]]

\* if value is None: return None; normalized = value.upper().strip()
\* (k_upper = k_number.upper() in from_k_number)
FirstStatement(ths, t) ==
    IF ths[t].fn \in Validators /\ ths[t].arg = None
    THEN [ths EXCEPT ![t] = Finished(@, Return(None))]
    ELSE [ths EXCEPT ![t].pc = "normalized",
                     ![t].normalized =
                         IF ths[t].fn = "from_k_number" THEN Upper(ths[t].arg)
                         ELSE Strip(Upper(ths[t].arg))]

\* The test that follows: the length of a country code, the pattern of an
\* identifier, the prefixes of from_k_number.
SecondStatement(ths, t) ==
    LET th == ths[t]
        n == th.normalized
    IN  IF th.fn = "validate_country_code"
        THEN (IF Len(n) # 2
              THEN [ths EXCEPT ![t] =
                       Finished(@, Raise("Invalid country code '{value}': must be exactly 2 characters",
                                         th.arg))]
              ELSE [ths EXCEPT ![t].pc = "measured"])
        ELSE IF th.fn = "from_k_number"
        THEN [ths EXCEPT ![t] =
                 Finished(@,
                     IF StartsWith(n, <<"K">>) \/ StartsWith(n, <<"B","K">>)
                     THEN Return("510(k)")
                     ELSE IF StartsWith(n, <<"D","E","N">>) THEN Return("De Novo")
                     ELSE IF StartsWith(n, <<"P">>) THEN Return("PMA")
                     ELSE IF StartsWith(n, <<"H">>) THEN Return("HDE")
                     ELSE Raise("Cannot determine clearance type from: {k_number}",
                                th.arg))]
        ELSE [ths EXCEPT ![t] =
                 Finished(@, IF ~MatchesPattern(th.fn, n)
                             THEN Raise(FormatMessage(th.fn), th.arg)
                             ELSE Return(n))]

\* if normalized not in VALID_COUNTRY_CODES: raise ...; return normalized
LookUp(ths, t, allow) ==
    [ths EXCEPT ![t] =
        Finished(@, IF ths[t].normalized \notin allow
                    THEN Raise("Invalid ISO 3166-1 country code '{value}'. Expected one of: {', '.join(sorted(VALID_COUNTRY_CODES))}",
                               ths[t].arg)
                    ELSE Return(ths[t].normalized))]

InitConcurrent ==
    /\ arg = None
    /\ result = NoCall
    /\ clearance = NoRecord
    /\ classification = NoRecord
    /\ manufacturer = NoRecord
    /\ outcome = NoOutcome
    /\ regulator = NoRecord
    /\ threads \in [ThreadIds -> Calls]
    /\ allow_list = VALID_COUNTRY_CODES
    /\ document = NoRecord

RunFirstStatement(t) ==
    /\ threads[t].pc = "called"
    /\ threads' = FirstStatement(threads, t)
    /\ UNCHANGED <<document, regulator, allow_list, arg, result, clearance, classification, manufacturer, outcome>>

RunSecondStatement(t) ==
    /\ threads[t].pc = "normalized"
    /\ threads' = SecondStatement(threads, t)
    /\ UNCHANGED <<document, regulator, allow_list, arg, result, clearance, classification, manufacturer, outcome>>

RunLookUp(t) ==
    /\ threads[t].pc = "measured"
    /\ threads' = LookUp(threads, t, allow_list)
    /\ UNCHANGED <<document, regulator, allow_list, arg, result, clearance, classification, manufacturer, outcome>>

NextConcurrent ==
    \E t \in ThreadIds :
        \/ RunFirstStatement(t)
        \/ RunSecondStatement(t)
        \/ RunLookUp(t)

SpecConcurrent == InitConcurrent /\ [][NextConcurrent]_vars

-----------------------------------------------------------------------------
(* documents/base.py, documents/evidence.py, documents/regulatory.py: the  *)
(* three-tier documents, their sections and the summaries that flatten     *)
(* them.  The fields a summary does not read (language, keywords, figures, *)
(* tables, references, the storage fields) are left out.                   *)

\* DocumentType and ContentType: a member is modelled by its value, which
\* is what a field stores (use_enum_values) and what a member is equal to.
EVIDENCE_DOC == <<"k","b","_","e","v","i","d","e","n","c","e","_","d","o","c">>

REGULATORY_DOC == <<"k","b","_","r","e","g","u","l","a","t","o","r","y","_","d","o","c">>

DocumentType ==
    {<<"k","b","_","e","v","i","d","e","n","c","e","_","d","o","c">>,
     <<"k","b","_","a","i","m","o","d","e","l","_","c","a","r","d">>,
     <<"k","b","_","r","e","g","u","l","a","t","o","r","y","_","d","o","c">>,
     <<"k","b","_","p","r","o","d","u","c","t","_","c","a","r","d">>,
     <<"k","b","_","m","a","n","u","f","a","c","t","u","r","e","r","_","c","a","r","d">>,
     <<"k","b","_","u","s","e","_","c","a","s","e">>}

PEER_REVIEWED_PAPER == <<"p","e","e","r","_","r","e","v","i","e","w","e","d","_","p","a","p","e","r">>

PREPRINT == <<"p","r","e","p","r","i","n","t">>

ContentType ==
    {
     <<"p","e","e","r","_","r","e","v","i","e","w","e","d","_","p","a","p","e","r">>,
     <<"p","r","e","p","r","i","n","t">>,
     <<"c","l","i","n","i","c","a","l","_","t","r","i","a","l">>,
     <<"s","y","s","t","e","m","a","t","i","c","_","r","e","v","i","e","w">>,
     <<"m","e","t","a","_","a","n","a","l","y","s","i","s">>,
     <<"5","1","0","k","_","s","u","m","m","a","r","y">>,
     <<"p","m","a","_","s","u","m","m","a","r","y">>,
     <<"d","e","_","n","o","v","o","_","s","u","m","m","a","r","y">>,
     <<"m","o","d","e","l","_","c","a","r","d","_","v","1">>,
     <<"p","r","o","d","u","c","t","_","p","r","o","f","i","l","e">>,
     <<"c","o","m","p","a","n","y","_","p","r","o","f","i","l","e">>,
     <<"c","l","i","n","i","c","a","l","_","u","s","e","_","c","a","s","e">>}

\* A nested record argument that is not given.
MissingModel == [cls |-> "missing"]

\* An enum field with a default.
EnumDefault(raw, members, default) ==
    IF raw = Missing THEN Return(default) ELSE EnumField(raw, TRUE, members)

\* A field list[str] = Field(default_factory=list): each item is stripped.
ListOfStr(raw) ==
    IF raw = MissingList THEN Return([cls |-> "list", items |-> <<>>])
    ELSE IF raw = NoList THEN PydanticError("list_type")
    ELSE Return([cls |-> "list",
                 items |-> [i \in DOMAIN raw.items |-> Strip(raw.items[i])]])

\* A field Optional[date] = Field(None), given None, a date or a datetime:
\* a datetime is a date only when its time of day is zero.
DateField(raw) ==
    IF raw \in {MissingDate, NoDate} THEN Return(NoDate)
    ELSE IF raw.type = "datetime"
    THEN (IF raw.seconds = 0 THEN Return(DateObj(raw.year, raw.month, raw.day))
          ELSE PydanticError("date_from_datetime_inexact"))
    ELSE Return(raw)

\* A field datetime = Field(...): a date is taken at midnight.
DateTimeField(raw) ==
    IF raw = MissingDate THEN PydanticError("missing")
    ELSE IF raw = NoDate THEN PydanticError("datetime_type")
    ELSE IF raw.type = "date"
    THEN Return(DateTimeObj(raw.year, raw.month, raw.day, 0))
    ELSE Return(raw)

\* The outcome of a constructor: the record, or the errors and no record.
Constructed(cls, fields) ==
    [errors |-> FieldErrors(fields),
     obj |-> IF FieldErrors(fields) = {}
             THEN [f \in DOMAIN fields \cup {"cls"} |->
                      IF f = "cls" THEN cls ELSE fields[f].value]
             ELSE NoRecord]

\* A field that holds a record: the record's own validation.
NestedField(c) == IF c.errors # {} THEN NestedError(c.errors) ELSE Return(c.obj)

\* MetadataObjectBase(**kw): created_at and updated_at default to
\* datetime.now(timezone.utc), each read when its default is made.
MetadataObjectBase(kw, now) ==
    Constructed("MetadataObjectBase",
        [created_at |-> IF kw.created_at = MissingDate THEN Return(now[1])
                        ELSE DateTimeField(kw.created_at),
         updated_at |-> IF kw.updated_at = MissingDate THEN Return(now[2])
                        ELSE DateTimeField(kw.updated_at)])

\* EvidenceMetadataContent(**kw), with the fields of MetadataContentBase
EvidenceMetadataContent(kw) ==
    Constructed("EvidenceMetadataContent",
        [document_type |-> EnumDefault(kw.document_type, DocumentType, EVIDENCE_DOC),
         content_type |->
             EnumDefault(kw.content_type, ContentType, PEER_REVIEWED_PAPER),
         title |-> StrType(kw.title, TRUE),
         clinical_domain |-> StrType(kw.clinical_domain, FALSE),
         tags |-> ListOfStr(kw.tags),
         abstract |-> StrType(kw.abstract, FALSE),
         publication_date |-> DateField(kw.publication_date),
         authors |-> ListOfStr(kw.authors),
         journal |-> StrType(kw.journal, FALSE),
         doi |-> StrType(kw.doi, FALSE),
         anatomical_region |-> StrType(kw.anatomical_region, FALSE)])

\* An int field, its default if it has one: Field(..., ge=1) of
\* SectionBase.order has a bound, the order field that a subclass of
\* SectionBase declares again has none.
IntField(kw, key, default, has_ge, ge) ==
    IF key \notin DOMAIN kw
    THEN (IF default = {} THEN PydanticError("missing")
          ELSE Return(CHOOSE n \in default : TRUE))
    ELSE IF has_ge /\ kw[key] < ge THEN PydanticError("greater_than_equal")
    ELSE Return(kw[key])

SectionOrderMin == 1

\* SectionBase(**kw): title: str = Field(...), order: int = Field(..., ge=1)
SectionBase(kw) ==
    Constructed("SectionBase",
        [title |-> StrType(Get(kw, "title", Missing), TRUE),
         order |-> IntField(kw, "order", {}, TRUE, SectionOrderMin)])

\* A subclass of SectionBase that declares title: str = Field(default=...)
\* and order: int = Field(default=...) again: the new order has no ge.
SectionSubclass(cls, title, order, kw) ==
    Constructed(cls,
        [title |-> IF "title" \in DOMAIN kw THEN StrType(kw.title, TRUE)
                   ELSE Return(title),
         order |-> IntField(kw, "order", {order}, FALSE, SectionOrderMin)])

SponsorSection(kw) ==
    SectionSubclass("SponsorSection", <<"S","p","o","n","s","o","r"," ","I","n","f","o","r","m","a","t","i","o","n">>, 0, kw)

DeviceDescriptionSection(kw) ==
    SectionSubclass("DeviceDescriptionSection", <<"D","e","v","i","c","e"," ","D","e","s","c","r","i","p","t","i","o","n">>, 1, kw)

\* The default_factory of EvidenceContent.sections
EvidenceDefaultSections ==
    [k \in {"1_introduction", "2_methods", "3_results", "4_discussion",
            "5_conclusion"} |->
        SectionBase(
            CASE k = "1_introduction" -> [title |-> <<"I","n","t","r","o","d","u","c","t","i","o","n">>, order |-> 1]
              [] k = "2_methods" -> [title |-> <<"M","e","t","h","o","d","s">>, order |-> 2]
              [] k = "3_results" -> [title |-> <<"R","e","s","u","l","t","s">>, order |-> 3]
              [] k = "4_discussion" -> [title |-> <<"D","i","s","c","u","s","s","i","o","n">>, order |-> 4]
              [] k = "5_conclusion" -> [title |-> <<"C","o","n","c","l","u","s","i","o","n">>, order |-> 5]).obj]

\* The default_factory of RegulatoryContent.sections
RegulatoryDefaultSections ==
    [k \in {"0_sponsor", "1_device_description", "2_indications_for_use",
            "3_predicate_devices", "4_performance_testing",
            "5_substantial_equivalence"} |->
        (CASE k = "0_sponsor" ->
                SponsorSection([title |-> <<"S","p","o","n","s","o","r"," ","I","n","f","o","r","m","a","t","i","o","n">>, order |-> 0])
           [] k = "1_device_description" ->
                DeviceDescriptionSection([title |-> <<"D","e","v","i","c","e"," ","D","e","s","c","r","i","p","t","i","o","n">>, order |-> 1])
           [] k = "2_indications_for_use" ->
                SectionSubclass("IndicationsSection", <<"I","n","d","i","c","a","t","i","o","n","s"," ","f","o","r"," ","U","s","e">>, 2,
                                [title |-> <<"I","n","d","i","c","a","t","i","o","n","s"," ","f","o","r"," ","U","s","e">>, order |-> 2])
           [] k = "3_predicate_devices" ->
                SectionSubclass("PredicatesSection", <<"P","r","e","d","i","c","a","t","e"," ","D","e","v","i","c","e","s">>, 3,
                                [title |-> <<"P","r","e","d","i","c","a","t","e"," ","D","e","v","i","c","e","s">>, order |-> 3])
           [] k = "4_performance_testing" ->
                SectionSubclass("PerformanceTestingSection", <<"P","e","r","f","o","r","m","a","n","c","e"," ","T","e","s","t","i","n","g">>, 4,
                                [title |-> <<"P","e","r","f","o","r","m","a","n","c","e"," ","T","e","s","t","i","n","g">>, order |-> 4])
           [] k = "5_substantial_equivalence" ->
                SectionSubclass("SubstantialEquivalenceSection",
                                <<"S","u","b","s","t","a","n","t","i","a","l"," ","E","q","u","i","v","a","l","e","n","c","e">>, 5,
                                [title |-> <<"S","u","b","s","t","a","n","t","i","a","l"," ","E","q","u","i","v","a","l","e","n","c","e">>, order |-> 5])).obj]

\* One value of a sections argument: keyword arguments are validated as a
\* SectionBase, an instance of SectionBase or of a subclass is kept as it is.
SectionItem(raw) ==
    IF raw.cls = "dict" THEN SectionBase(raw) ELSE [errors |-> {}, obj |-> raw]

\* The field sections: dict[str, SectionBase] = Field(default_factory=...)
Field_sections(raw, default) ==
    IF raw = MissingModel THEN Return(default)
    ELSE IF \E k \in DOMAIN raw.items : SectionItem(raw.items[k]).errors # {}
    THEN NestedError(UNION {SectionItem(raw.items[k]).errors : k \in DOMAIN raw.items})
    ELSE Return([k \in DOMAIN raw.items |-> SectionItem(raw.items[k]).obj])

EvidenceContent(kw) ==
    Constructed("EvidenceContent",
        [sections |-> Field_sections(kw.sections, EvidenceDefaultSections)])

RegulatoryContent(kw) ==
    Constructed("RegulatoryContent",
        [sections |-> Field_sections(kw.sections, RegulatoryDefaultSections)])

\* EvidenceDocument(**kw): id has the alias _id; metadata_object and content
\* have a default_factory, metadata_content is required.
EvidenceDocument(kw, now) ==
    Constructed("EvidenceDocument",
        [id |-> StrType(kw._id, FALSE),
         metadata_object |->
             NestedField(MetadataObjectBase(
                 IF kw.metadata_object = MissingModel
                 THEN [created_at |-> MissingDate, updated_at |-> MissingDate]
                 ELSE kw.metadata_object, now)),
         metadata_content |->
             IF kw.metadata_content = MissingModel THEN PydanticError("missing")
             ELSE NestedField(EvidenceMetadataContent(kw.metadata_content)),
         content |->
             NestedField(EvidenceContent(
                 IF kw.content = MissingModel THEN [sections |-> MissingModel]
                 ELSE kw.content))])

\* DocumentSummaryBase(**kw)
DocumentSummaryBase(kw) ==
    Constructed("DocumentSummaryBase",
        [id |-> StrType(kw._id, TRUE),
         document_type |-> EnumField(kw.document_type, TRUE, DocumentType),
         content_type |-> EnumField(kw.content_type, TRUE, ContentType),
         title |-> StrType(kw.title, TRUE),
         clinical_domain |-> StrType(kw.clinical_domain, FALSE),
         tags |-> ListOfStr(kw.tags),
         created_at |-> DateTimeField(kw.created_at),
         updated_at |-> DateTimeField(kw.updated_at)])

\* EvidenceSummary(**kw)
EvidenceSummary(kw) ==
    Constructed("EvidenceSummary",
        [id |-> StrType(kw._id, TRUE),
         document_type |-> EnumDefault(kw.document_type, DocumentType, EVIDENCE_DOC),
         content_type |-> EnumField(kw.content_type, TRUE, ContentType),
         title |-> StrType(kw.title, TRUE),
         clinical_domain |-> StrType(kw.clinical_domain, FALSE),
         tags |-> ListOfStr(kw.tags),
         created_at |-> DateTimeField(kw.created_at),
         updated_at |-> DateTimeField(kw.updated_at),
         authors |-> ListOfStr(kw.authors),
         journal |-> StrType(kw.journal, FALSE),
         publication_date |-> DateField(kw.publication_date),
         doi |-> StrType(kw.doi, FALSE),
         abstract |-> StrType(kw.abstract, FALSE),
         anatomical_region |-> StrType(kw.anatomical_region, FALSE)])

\* a or b, of two values that are a str or None
Or(a, b) == IF Truthy(a) THEN a ELSE b

\* DocumentSummaryBase.from_document
DocumentSummaryBase_from_document(doc) ==
    DocumentSummaryBase(
        [_id |-> Or(doc.id, <<>>),
         document_type |-> doc.metadata_content.document_type,
         content_type |-> doc.metadata_content.content_type,
         title |-> doc.metadata_content.title,
         clinical_domain |-> doc.metadata_content.clinical_domain,
         tags |-> doc.metadata_content.tags,
         created_at |-> doc.metadata_object.created_at,
         updated_at |-> doc.metadata_object.updated_at])

\* EvidenceSummary.from_document passing doc.id as it is, without the or "".
EvidenceSummary_from_document_IdAsIs(doc) ==
    EvidenceSummary(
        [_id |-> doc.id,
         document_type |-> doc.metadata_content.document_type,
         content_type |-> doc.metadata_content.content_type,
         title |-> doc.metadata_content.title,
         clinical_domain |-> doc.metadata_content.clinical_domain,
         tags |-> doc.metadata_content.tags,
         created_at |-> doc.metadata_object.created_at,
         updated_at |-> doc.metadata_object.updated_at,
         authors |-> doc.metadata_content.authors,
         journal |-> doc.metadata_content.journal,
         publication_date |-> doc.metadata_content.publication_date,
         doi |-> doc.metadata_content.doi,
         abstract |-> doc.metadata_content.abstract,
         anatomical_region |-> doc.metadata_content.anatomical_region])

\* EvidenceSummary.from_document
EvidenceSummary_from_document(doc) ==
    EvidenceSummary(
        [_id |-> Or(doc.id, <<>>),
         document_type |-> doc.metadata_content.document_type,
         content_type |-> doc.metadata_content.content_type,
         title |-> doc.metadata_content.title,
         clinical_domain |-> doc.metadata_content.clinical_domain,
         tags |-> doc.metadata_content.tags,
         created_at |-> doc.metadata_object.created_at,
         updated_at |-> doc.metadata_object.updated_at,
         authors |-> doc.metadata_content.authors,
         journal |-> doc.metadata_content.journal,
         publication_date |-> doc.metadata_content.publication_date,
         doi |-> doc.metadata_content.doi,
         abstract |-> doc.metadata_content.abstract,
         anatomical_region |-> doc.metadata_content.anatomical_region])

-----------------------------------------------------------------------------
(* An evidence document: it is constructed, its fields are assigned, and  *)
(* summaries are made of it.                                               *)

\* What datetime.now(timezone.utc) can return at a construction.
Clock == {DateTimeObj(2025, 1, 1, 0), DateTimeObj(2025, 1, 1, 60)}

StrList(items) == [cls |-> "list", items |-> items]

FullEvidenceMetadata ==
    [cls |-> "dict",
     document_type |-> EVIDENCE_DOC,
     content_type |-> PREPRINT,
     title |-> <<"A","I"," ","i","n"," ","R","a","d","i","o","l","o","g","y">>,
     clinical_domain |-> <<"r","a","d","i","o","l","o","g","y">>,
     tags |-> StrList(<< <<"a","i">>, <<" ","c","t"," ">> >>),
     abstract |-> <<"A"," ","t","e","s","t"," ","a","b","s","t","r","a","c","t",".">>,
     publication_date |-> DateObj(2024, 3, 15),
     authors |-> StrList(<< <<"T","e","s","t"," ","A","u","t","h","o","r">> >>),
     journal |-> <<"T","e","s","t"," ","J","o","u","r","n","a","l">>,
     doi |-> <<"1","0",".","1","1","4","8","/","r","y","a","i">>,
     anatomical_region |-> <<"c","h","e","s","t">>]

MinimalEvidenceMetadata ==
    [cls |-> "dict",
     document_type |-> Missing,
     content_type |-> Missing,
     title |-> <<"A","I"," ","i","n"," ","R","a","d","i","o","l","o","g","y">>,
     clinical_domain |-> Missing,
     tags |-> MissingList,
     abstract |-> Missing,
     publication_date |-> MissingDate,
     authors |-> MissingList,
     journal |-> Missing,
     doi |-> Missing,
     anatomical_region |-> Missing]

EvidenceMetadataInputs ==
    {FullEvidenceMetadata, MinimalEvidenceMetadata}
        \cup {[FullEvidenceMetadata EXCEPT !.title = v] :
                 v \in {Missing, None, <<>>, <<" ","P","a","d","d","e","d"," ","t","i","t","l","e"," ">>}}
        \cup {[FullEvidenceMetadata EXCEPT !.document_type = v] :
                 v \in {Missing, REGULATORY_DOC, <<"k","b","_","u","n","k","n","o","w","n">>}}
        \cup {[FullEvidenceMetadata EXCEPT !.content_type = v] :
                 v \in {Missing, None}}
        \cup {[FullEvidenceMetadata EXCEPT !.publication_date = v] :
                 v \in {NoDate, DateTimeObj(2024, 3, 15, 0),
                        DateTimeObj(2024, 3, 15, 3600)}}
        \cup {[FullEvidenceMetadata EXCEPT !.tags = v] : v \in {NoList, StrList(<<>>)}}
        \cup {[FullEvidenceMetadata EXCEPT !.abstract = v] : v \in {None, <<>>}}

MetadataObjectInputs ==
    {MissingModel,
     [cls |-> "dict", created_at |-> DateTimeObj(2024, 1, 1, 0),
      updated_at |-> DateTimeObj(2024, 6, 1, 7200)],
     [cls |-> "dict", created_at |-> DateObj(2024, 1, 1), updated_at |-> MissingDate],
     [cls |-> "dict", created_at |-> NoDate, updated_at |-> MissingDate]}

DocumentIdInputs == {<<"t","e","s","t","-","e","v","i","d","e","n","c","e","-","4","5","6">>, <<" ","p","a","d","d","e","d","-","i","d"," ">>, <<>>}

SectionOrderInputs == (SectionOrderMin - 1)..(SectionOrderMin + 1)

\* The keyword arguments of one section, and instances made beforehand.
SectionKwargs ==
    {[cls |-> "dict", title |-> <<"B","a","c","k","g","r","o","u","n","d">>, order |-> n] : n \in SectionOrderInputs}
        \cup {[cls |-> "dict", title |-> <<"B","a","c","k","g","r","o","u","n","d">>]}

SectionInstances ==
    ({SponsorSection(kw).obj : kw \in {[order |-> n] : n \in SectionOrderInputs}}
        \cup {SponsorSection([title |-> <<"S","p","o","n","s","o","r">>]).obj,
              DeviceDescriptionSection([title |-> <<"D","e","v","i","c","e">>]).obj}
        \cup {SectionBase(kw).obj : kw \in SectionKwargs}) \ {NoRecord}

SectionsInputs ==
    {[cls |-> "dict", items |-> [k \in {"1_background"} |-> v]] :
        v \in SectionKwargs \cup SectionInstances}
        \cup {[cls |-> "dict", items |-> [k \in {} |-> MissingModel]]}

ContentInputs ==
    {MissingModel} \cup {[cls |-> "dict", sections |-> v] :
                            v \in SectionsInputs \cup {MissingModel}}

BaseEvidenceDocument ==
    [_id |-> <<"t","e","s","t","-","e","v","i","d","e","n","c","e","-","4","5","6">>,
     metadata_object |-> MissingModel,
     metadata_content |-> FullEvidenceMetadata,
     content |-> MissingModel]

KwargsEvidenceDocument ==
    {[BaseEvidenceDocument EXCEPT !._id = v] : v \in DocumentIdInputs \cup {Missing, None}}
        \cup {[BaseEvidenceDocument EXCEPT !.metadata_object = v] :
                 v \in MetadataObjectInputs}
        \cup {[BaseEvidenceDocument EXCEPT !.metadata_content = v] :
                 v \in EvidenceMetadataInputs \cup {MissingModel}}
        \cup {[BaseEvidenceDocument EXCEPT !._id = None, !.metadata_content = v] :
                 v \in EvidenceMetadataInputs}
        \cup {[BaseEvidenceDocument EXCEPT !.content = v] : v \in ContentInputs}

InitDocuments ==
    /\ arg = None
    /\ result = NoCall
    /\ clearance = NoRecord
    /\ classification = NoRecord
    /\ manufacturer = NoRecord
    /\ outcome = NoOutcome
    /\ regulator = NoRecord
    /\ threads = NoThreads
    /\ allow_list = VALID_COUNTRY_CODES
    /\ document = NoRecord

ConstructEvidenceDocument ==
    /\ outcome = NoOutcome
    /\ \E kw \in KwargsEvidenceDocument : \E now \in Clock \X Clock :
          /\ document' = EvidenceDocument(kw, now).obj
          /\ outcome' = [op |-> "EvidenceDocument", kwargs |-> kw,
                         errors |-> EvidenceDocument(kw, now).errors]
    /\ UNCHANGED <<arg, clearance, classification, manufacturer, regulator, threads, allow_list, result>>

\* The result of from_document: the summary, or the ValidationError of
\* its constructor.
SummaryOutcome(c) ==
    IF c.errors = {} THEN Return(c.obj)
    ELSE [kind |-> "raise", error |-> "ValidationError", errors |-> c.errors]

SummaryFromDocument ==
    /\ document # NoRecord
    /\ document.cls = "EvidenceDocument"
    /\ result' = [fn |-> "DocumentSummaryBase.from_document", doc |-> document,
                  out |-> SummaryOutcome(DocumentSummaryBase_from_document(document))]
    /\ UNCHANGED <<arg, clearance, classification, manufacturer, regulator, threads, allow_list, outcome, document>>

EvidenceSummaryFromDocument ==
    /\ document # NoRecord
    /\ document.cls = "EvidenceDocument"
    /\ result' = [fn |-> "EvidenceSummary.from_document", doc |-> document,
                  out |-> SummaryOutcome(EvidenceSummary_from_document(document))]
    /\ UNCHANGED <<arg, clearance, classification, manufacturer, regulator, threads, allow_list, outcome, document>>

\* doc.id = raw
SetDocumentId ==
    /\ document # NoRecord
    /\ document.cls = "EvidenceDocument"
    /\ \E raw \in DocumentIdInputs \cup {None} :
          /\ document' = Assigned(document, "id", StrType(raw, FALSE))
          /\ outcome' = SetattrOutcome("id", StrType(raw, FALSE))
    /\ UNCHANGED <<arg, clearance, classification, manufacturer, regulator, threads, allow_list, result>>

\* doc.metadata_content.title = raw
SetDocumentTitle ==
    /\ document # NoRecord
    /\ document.cls = "EvidenceDocument"
    /\ \E raw \in {<<" ","P","a","d","d","e","d"," ","t","i","t","l","e"," ">>, None} :
          /\ document' = [document EXCEPT !.metadata_content =
                             Assigned(@, "title", StrType(raw, TRUE))]
          /\ outcome' = SetattrOutcome("title", StrType(raw, TRUE))
    /\ UNCHANGED <<arg, clearance, classification, manufacturer, regulator, threads, allow_list, result>>

NextDocuments ==
    \/ ConstructEvidenceDocument
    \/ SummaryFromDocument
    \/ EvidenceSummaryFromDocument
    \/ SetDocumentId
    \/ SetDocumentTitle

SpecDocuments == InitDocuments /\ [][NextDocuments]_vars

-----------------------------------------------------------------------------
(* The content of a document: it is constructed with the sections it is    *)
(* given or with its default sections, then the order of its sections is   *)
(* assigned.                                                               *)

InitSections ==
    /\ arg = None
    /\ result = NoCall
    /\ clearance = NoRecord
    /\ classification = NoRecord
    /\ manufacturer = NoRecord
    /\ outcome = NoOutcome
    /\ regulator = NoRecord
    /\ threads = NoThreads
    /\ allow_list = VALID_COUNTRY_CODES
    /\ document = NoRecord

ConstructEvidenceContent ==
    /\ outcome = NoOutcome
    /\ \E kw \in ContentInputs \ {MissingModel} :
          /\ document' = EvidenceContent(kw).obj
          /\ outcome' = [op |-> "EvidenceContent", kwargs |-> kw,
                         errors |-> EvidenceContent(kw).errors]
    /\ UNCHANGED <<arg, clearance, classification, manufacturer, regulator, threads, allow_list, result>>

ConstructRegulatoryContent ==
    /\ outcome = NoOutcome
    /\ \E kw \in ContentInputs \ {MissingModel} :
          /\ document' = RegulatoryContent(kw).obj
          /\ outcome' = [op |-> "RegulatoryContent", kwargs |-> kw,
                         errors |-> RegulatoryContent(kw).errors]
    /\ UNCHANGED <<arg, clearance, classification, manufacturer, regulator, threads, allow_list, result>>

\* section.order = n, validated by the class of the section.
Field_order(section, n) ==
    IntField([order |-> n], "order", {}, section.cls = "SectionBase", SectionOrderMin)

\* content.sections[k].order = n
SetSectionOrder ==
    /\ document # NoRecord
    /\ \E k \in DOMAIN document.sections : \E n \in SectionOrderInputs :
          /\ document' = [document EXCEPT !.sections[k] =
                             Assigned(@, "order", Field_order(@, n))]
          /\ outcome' = SetattrOutcome("order", Field_order(document.sections[k], n))
    /\ UNCHANGED <<arg, clearance, classification, manufacturer, regulator, threads, allow_list, result>>

NextSections ==
    \/ ConstructEvidenceContent
    \/ ConstructRegulatoryContent
    \/ SetSectionOrder

SpecSections == InitSections /\ [][NextSections]_vars

-----------------------------------------------------------------------------
(* validate_iso_date called on its own: on None, on a date, on a datetime  *)
(* and on strings in the two formats it parses and in neither.             *)

YearTokens == {<<"2", "0", "2", "4">>, <<"2", "0", "2", "3">>}

MonthTokens == {<<"0", "2">>, <<"8">>, <<"0", "8">>, <<"1", "2">>, <<"1", "3">>}

DayTokens == {<<"1", "5">>, <<"2", "9">>, <<"3", "0">>, <<"3", "1">>, <<"5">>, <<"0", "0">>}

DateStrings ==
    {DateStr(y \o <<"-">> \o m \o <<"-">> \o d) :
        <<y, m, d>> \in YearTokens \X MonthTokens \X DayTokens}
        \cup {DateStr(m \o <<"/">> \o d \o <<"/">> \o y) :
                 <<y, m, d>> \in YearTokens \X MonthTokens \X DayTokens}
        \cup {DateStr(d \o <<".">> \o m \o <<".">> \o y) :
                 <<y, m, d>> \in YearTokens \X MonthTokens \X DayTokens}

DateCallInputs == DateInputs \cup DateStrings

InitDates ==
    /\ arg \in DateCallInputs
    /\ result = NoCall
    /\ clearance = NoRecord
    /\ classification = NoRecord
    /\ manufacturer = NoRecord
    /\ outcome = NoOutcome
    /\ regulator = NoRecord
    /\ threads = NoThreads
    /\ allow_list = VALID_COUNTRY_CODES
    /\ document = NoRecord

CallValidateIsoDate ==
    /\ result' = [fn |-> "validate_iso_date", out |-> validate_iso_date(arg)]
    /\ UNCHANGED <<document, regulator, threads, allow_list, arg, clearance, classification, manufacturer, outcome>>

NextDates == CallValidateIsoDate

SpecDates == InitDates /\ [][NextDates]_vars

-----------------------------------------------------------------------------
(* Properties of the validators and of the classifier (SpecValidators)     *)

\* The claims' "n = s trimmed and uppercased".
Normalized(s) == Upper(Strip(s))

\* K, BK or DEN followed by 6 or 7 digits, and nothing else.
InKNumberLanguage(n) ==
    \E p \in {<<"K">>, <<"B","K">>, <<"D","E","N">>} : \E k \in {6, 7} :
        /\ Len(n) = Len(p) + k
        /\ SubSeq(n, 1, Len(p)) = p
        /\ \A i \in (Len(p) + 1)..Len(n) : IsDigit(n[i])

\* C1: validate_k_number_format returns None for None; for a string s with
\* n = s trimmed and uppercased it returns n when n is K, BK or DEN followed
\* by 6 or 7 digits, and raises for every other string.
C1_KNumberLanguage ==
    result.fn = "validate_k_number_format" =>
        IF arg = None THEN result.out = Return(None)
        ELSE IF InKNumberLanguage(Normalized(arg))
             THEN result.out = Return(Normalized(arg))
             ELSE result.out.kind = "raise"

\* A padded lowercase K-number was accepted and returned normalized.
C1_Witness ==
    /\ result.fn = "validate_k_number_format"
    /\ arg # None
    /\ result.out.kind = "return"
    /\ result.out.value # arg
    /\ Len(result.out.value) < Len(arg)
    /\ StartsWith(result.out.value, <<"D","E","N">>)

\* C2: validate_country_code returns None for None; for a string s with
\* n = s trimmed and uppercased it returns n when n is in the allow-list and
\* raises when n has not length 2 or is not in the allow-list.
C2_CountryAllowList ==
    result.fn = "validate_country_code" =>
        IF arg = None THEN result.out = Return(None)
        ELSE /\ Normalized(arg) \in VALID_COUNTRY_CODES
                    => result.out = Return(Normalized(arg))
             /\ (Len(Normalized(arg)) # 2 \/ Normalized(arg) \notin VALID_COUNTRY_CODES)
                    => result.out.kind = "raise"

\* A padded lowercase allow-listed code was accepted and returned uppercased.
C2_Witness ==
    /\ result.fn = "validate_country_code"
    /\ arg # None
    /\ result.out = Return(<<"D","E">>)
    /\ arg # <<"D","E">>

\* The prefix of the uppercased input that decides the class, read off the
\* first characters.
PrefixClass(s) ==
    LET u == Upper(s)
        at(i) == IF i <= Len(u) THEN u[i] ELSE ""
    IN  IF at(1) = "K" \/ (at(1) = "B" /\ at(2) = "K") THEN "510(k)"
        ELSE IF at(1) = "D" /\ at(2) = "E" /\ at(3) = "N" THEN "De Novo"
        ELSE IF at(1) = "P" THEN "PMA"
        ELSE IF at(1) = "H" THEN "HDE"
        ELSE "none"

\* C3: from_k_number classifies by the prefix of the uppercased input: K or
\* BK gives 510(k), DEN De Novo, P PMA, H HDE; a string with none of these
\* prefixes (the empty string too) raises an error that reports the input.
C3_Classifier ==
    result.fn = "from_k_number" =>
        IF PrefixClass(arg) = "none"
        THEN result.out.kind = "raise" /\ result.out.value = arg
        ELSE result.out = Return(PrefixClass(arg))

\* A lowercase BK input was classified as 510(k).
C3_Witness ==
    /\ result.fn = "from_k_number"
    /\ StartsWith(arg, <<"b","k">>)
    /\ result.out = Return("510(k)")

-----------------------------------------------------------------------------
(* Properties of the 510(k) clearance record (Spec510k)                    *)

Accepted == {<<"S","E","S","E">>, <<"S","E">>}

\* C4, as stated: a decision_code equal, ignoring case, to SESE or SE gives
\* is_cleared = true; any other decision_code gives false; with decision_code
\* None, is_cleared is true exactly when decision_date is set.
C4_TruthTable_Original ==
    clearance # NoRecord =>
        IF clearance.decision_code = None
        THEN is_cleared(clearance) = (clearance.decision_date # NoDate)
        ELSE is_cleared(clearance) = (Upper(clearance.decision_code) \in Accepted)

\* C4, amended: the truth table holds for every non-empty decision_code; an
\* empty decision_code is treated as None is, and is_cleared is then true
\* exactly when decision_date is set.
C4_TruthTable ==
    clearance # NoRecord =>
        IF clearance.decision_code = None \/ clearance.decision_code = <<>>
        THEN is_cleared(clearance) = (clearance.decision_date # NoDate)
        ELSE is_cleared(clearance) = (Upper(clearance.decision_code) \in Accepted)

\* A record whose lowercase decision_code is accepted, with no decision_date,
\* reached by assigning the code.
C4_Witness ==
    /\ clearance # NoRecord
    /\ outcome.op = "setattr"
    /\ clearance.decision_code = <<"s","e","s","e">>
    /\ clearance.decision_date = NoDate
    /\ is_cleared(clearance)

\* What is_cleared would be with another decision_date.
WithDate(self, d) == [self EXCEPT !.decision_date = d]

\* C5, as stated: for every record whose decision_code is a string,
\* is_cleared is whether the uppercased code is SESE or SE, whatever the
\* decision_date.
C5_FallbackOnlyForNone_Original ==
    (clearance # NoRecord /\ clearance.decision_code # None) =>
        \A d \in {NoDate, DateObj(2024, 8, 15)} :
            is_cleared(WithDate(clearance, d))
                = (Upper(clearance.decision_code) \in Accepted)

\* C5, amended: for every record whose decision_code is a non-empty string,
\* is_cleared is whether the uppercased code is SESE or SE, whatever the
\* decision_date; the decision_date decides when decision_code is None or
\* the empty string.
C5_FallbackOnlyForAbsent ==
    clearance # NoRecord =>
        \A d \in {NoDate, DateObj(2024, 8, 15)} :
            is_cleared(WithDate(clearance, d))
                = IF clearance.decision_code \in {None, <<>>} THEN d # NoDate
                  ELSE Upper(clearance.decision_code) \in Accepted

\* A record with a rejected decision_code and a decision_date: not cleared.
C5_Witness ==
    /\ clearance # NoRecord
    /\ clearance.decision_code = <<"N","S","E">>
    /\ clearance.decision_date # NoDate
    /\ ~is_cleared(clearance)

OnlyKNumber(k) ==
    [k_number |-> k, device_name |-> Missing, decision_code |-> Missing,
     decision_date |-> MissingDate]

\* C6, as stated: constructing a 510(k) clearance with k_number="k240001"
\* and no other field succeeds, with k_number "K240001", clearance_type
\* 510(k), is_de_novo false and is_cleared false.
C6_EndToEnd_Original ==
    (outcome.op = "FDA_510kClearance" /\ outcome.kwargs = OnlyKNumber(<<"k","2","4","0","0","0","1">>))
        => /\ outcome.errors = {}
           /\ clearance.k_number = <<"K","2","4","0","0","0","1">>
           /\ clearance_type(clearance) = Return("510(k)")
           /\ ~is_de_novo(clearance)
           /\ ~is_cleared(clearance)

\* C6, amended: constructing a 510(k) clearance with k_number="k240001", a
\* device_name (which is required) and no other field succeeds, with k_number
\* "K240001", clearance_type 510(k), is_de_novo false and is_cleared false;
\* without the device_name the construction fails.
C6_EndToEnd ==
    /\ (/\ outcome.op = "FDA_510kClearance"
        /\ outcome.kwargs.k_number = <<"k","2","4","0","0","0","1">>
        /\ outcome.kwargs.device_name \in DeviceNameInputs
        /\ outcome.kwargs.decision_code = Missing
        /\ outcome.kwargs.decision_date = MissingDate)
        => /\ outcome.errors = {}
           /\ clearance.k_number = <<"K","2","4","0","0","0","1">>
           /\ clearance.device_name = outcome.kwargs.device_name
           /\ clearance_type(clearance) = Return("510(k)")
           /\ ~is_de_novo(clearance)
           /\ ~is_cleared(clearance)
    /\ (outcome.op = "FDA_510kClearance" /\ outcome.kwargs = OnlyKNumber(<<"k","2","4","0","0","0","1">>))
        => /\ outcome.errors = {[loc |-> "device_name", type |-> "missing"]}
           /\ clearance = NoRecord

\* The record constructed from k_number="k240001" and a device_name.
C6_Witness ==
    /\ outcome.op = "FDA_510kClearance"
    /\ outcome.kwargs.k_number = <<"k","2","4","0","0","0","1">>
    /\ outcome.kwargs.decision_code = Missing
    /\ outcome.kwargs.decision_date = MissingDate
    /\ clearance # NoRecord
    /\ clearance.k_number = <<"K","2","4","0","0","0","1">>

\* C7: for every constructed FDA_510kClearance, whatever was assigned to it
\* since, clearance_type returns (never raises), and returns 510(k) or
\* De Novo.
C7_ClearanceTypeTotal ==
    clearance # NoRecord =>
        /\ clearance_type(clearance).kind = "return"
        /\ clearance_type(clearance).value \in {"510(k)", "De Novo"}

\* A record whose k_number was assigned a De Novo number after construction.
C7_Witness ==
    /\ clearance # NoRecord
    /\ outcome.op = "setattr"
    /\ outcome.field = "k_number"
    /\ outcome.errors = {}
    /\ clearance_type(clearance) = Return("De Novo")

\* C8: for every constructed FDA_510kClearance, is_de_novo is true exactly
\* when the k_number starts with DEN, and exactly when clearance_type is
\* De Novo.
C8_DeNovoAgrees ==
    clearance # NoRecord =>
        /\ is_de_novo(clearance)
              <=> (/\ Len(clearance.k_number) >= 3
                   /\ clearance.k_number[1] \in {"D", "d"}
                   /\ clearance.k_number[2] \in {"E", "e"}
                   /\ clearance.k_number[3] \in {"N", "n"})
        /\ is_de_novo(clearance) <=> (clearance_type(clearance) = Return("De Novo"))

\* Records of both kinds: a De Novo one, and a BK one that is not De Novo.
C8_Witness ==
    /\ clearance # NoRecord
    /\ StartsWith(clearance.k_number, <<"B","K">>)
    /\ ~is_de_novo(clearance)
    /\ clearance_type(clearance) = Return("510(k)")

-----------------------------------------------------------------------------
(* Properties of the device classification record (SpecClassification)     *)

\* C9: requires_pma is true exactly when device_class is Class III and
\* submission_type_id is PMA; a Class III record with no submission type
\* reports requires_pma = false; requires_pma = true implies is_class_3.
C9_RequiresPma ==
    classification # NoRecord =>
        /\ requires_pma(classification)
              <=> (/\ classification.device_class = <<"3">>
                   /\ classification.submission_type_id = <<"P","M","A">>)
        /\ (/\ classification.device_class = <<"3">>
            /\ classification.submission_type_id = None)
              => ~requires_pma(classification)
        /\ requires_pma(classification) => is_class_3(classification)

\* A Class III record whose submission type is unset: requires_pma is false.
C9_Witness ==
    /\ classification # NoRecord
    /\ classification.device_class = <<"3">>
    /\ classification.submission_type_id = None
    /\ is_class_3(classification)
    /\ ~requires_pma(classification)

-----------------------------------------------------------------------------
(* Properties of the manufacturer record (SpecManufacturer)                *)

\* C10: is_us_based is true exactly when an address is present and its
\* country code is US: false with no address, false with an address that has
\* no country code, false for any other allow-listed code.
C10_IsUsBased ==
    manufacturer # NoRecord =>
        IF manufacturer.address = NoAddress THEN ~is_us_based(manufacturer)
        ELSE IF manufacturer.address.manufacturer_country = None
        THEN ~is_us_based(manufacturer)
        ELSE is_us_based(manufacturer)
                <=> manufacturer.address.manufacturer_country = <<"U","S">>

\* A manufacturer whose address was given the country " us\n".
C10_Witness ==
    /\ manufacturer # NoRecord
    /\ manufacturer.address # NoAddress
    /\ manufacturer.address.manufacturer_country = <<"U","S">>
    /\ is_us_based(manufacturer)

\* The claims' equality of two names: the same characters once surrounding
\* whitespace is trimmed, a letter being equal to itself in the other case.
SameLetter(a, b) ==
    \/ a = b
    \/ IsUpperAZ(a) /\ LowerChar(a) = b
    \/ IsUpperAZ(b) /\ LowerChar(b) = a

EqualIgnoringCase(s, t) ==
    /\ Len(Strip(s)) = Len(Strip(t))
    /\ \A i \in 1..Len(Strip(s)) : SameLetter(Strip(s)[i], Strip(t)[i])

\* C11: applicant_is_manufacturer is true when applicant is None, and
\* otherwise is true exactly when applicant and manufacturer_name are equal
\* after trimming surrounding whitespace and ignoring letter case.
C11_ApplicantIsManufacturer ==
    manufacturer # NoRecord =>
        IF manufacturer.applicant = None
        THEN applicant_is_manufacturer(manufacturer)
        ELSE applicant_is_manufacturer(manufacturer)
                <=> EqualIgnoringCase(manufacturer.applicant,
                                      manufacturer.manufacturer_name)

\* An applicant "acme" of the manufacturer "ACME": the same entity.
C11_Witness ==
    /\ manufacturer # NoRecord
    /\ manufacturer.applicant = <<"a","c","m","e">>
    /\ manufacturer.manufacturer_name = <<"A","C","M","E">>
    /\ applicant_is_manufacturer(manufacturer)

\* An applicant that is present and is not the manufacturer.
DiffersFromManufacturer(self) ==
    /\ self.applicant # None
    /\ ~EqualIgnoringCase(self.applicant, self.manufacturer_name)

\* C12 as stated: display_name is manufacturer_name unless an applicant is
\* present and differs from the manufacturer, and then, for every present
\* applicant value, it is manufacturer_name + " (via " + applicant + ")".
C12_DisplayName_Original ==
    manufacturer # NoRecord =>
        IF DiffersFromManufacturer(manufacturer)
        THEN display_name(manufacturer)
                = manufacturer.manufacturer_name \o <<" ","(","v","i","a"," ">>
                    \o manufacturer.applicant \o <<")">>
        ELSE display_name(manufacturer) = manufacturer.manufacturer_name

\* C12: display_name is manufacturer_name unless a non-empty applicant is
\* present and differs from the manufacturer, and then it is
\* manufacturer_name + " (via " + applicant + ")"; with an empty applicant
\* it is manufacturer_name.
C12_DisplayName ==
    manufacturer # NoRecord =>
        IF DiffersFromManufacturer(manufacturer) /\ manufacturer.applicant # <<>>
        THEN display_name(manufacturer)
                = manufacturer.manufacturer_name \o <<" ","(","v","i","a"," ">>
                    \o manufacturer.applicant \o <<")">>
        ELSE display_name(manufacturer) = manufacturer.manufacturer_name

\* The manufacturer "Acme" with the applicant "Parent".
C12_Witness ==
    /\ manufacturer # NoRecord
    /\ manufacturer.manufacturer_name = <<"A","c","m","e">>
    /\ manufacturer.applicant = <<"P","a","r","e","n","t">>
    /\ display_name(manufacturer)
          = <<"A","c","m","e"," ","(","v","i","a"," ","P","a","r","e","n","t",")">>

-----------------------------------------------------------------------------
(* Properties of the clearance records of the three pathways               *)
(* (SpecClearances)                                                        *)

\* DEN followed by 6 or 7 digits, and nothing else.
InDeNovoLanguage(n) ==
    \E k \in {6, 7} :
        /\ Len(n) = 3 + k
        /\ SubSeq(n, 1, 3) = <<"D","E","N">>
        /\ \A i \in 4..Len(n) : IsDigit(n[i])

\* The error of the field de_novo_number in a construction that gave raw.
DeNovoNumberError(raw) == Field_de_novo_number(raw)

-----------------------------------------------------------------------------
(* Properties of every record (SpecRecords)                                *)

IsStr(raw) == raw \notin {None, Missing}

\* A str that the named validator refuses, stated on its normalized form.
BadKNumber(raw) == IsStr(raw) /\ ~InKNumberLanguage(Normalized(raw))

BadDeNovoNumber(raw) == IsStr(raw) /\ ~InDeNovoLanguage(Normalized(raw))

BadPmaNumber(raw) ==
    IsStr(raw) /\ ~(/\ Len(Normalized(raw)) = 7
                    /\ Normalized(raw)[1] = "P"
                    /\ \A i \in 2..7 : IsDigit(Normalized(raw)[i]))

BadProductCode(raw) ==
    IsStr(raw) /\ ~(/\ Len(Normalized(raw)) = 3
                    /\ \A i \in 1..3 : IsUpperAZ(Normalized(raw)[i]))

BadCountryCode(raw) == IsStr(raw) /\ Normalized(raw) \notin VALID_COUNTRY_CODES

\* Whether a validator of an identifier or of a country code fails on the
\* keyword arguments of a construction, those of nested records included.
IdentifierValidatorFails(op, kw) ==
    \/ /\ op = "FDA_510kClearance"
       /\ \/ BadKNumber(Get(kw, "k_number", Missing))
          \/ BadProductCode(Get(kw, "product_code", Missing))
          \/ /\ Get(kw, "predicate_devices", MissingList) \notin {MissingList, NoList}
             /\ \E i \in DOMAIN kw.predicate_devices.items :
                   BadKNumber(Get(kw.predicate_devices.items[i], "k_number", Missing))
    \/ /\ op = "FDA_PMAClearance"
       /\ \/ BadPmaNumber(Get(kw, "pma_number", Missing))
          \/ BadProductCode(Get(kw, "product_code", Missing))
    \/ /\ op = "FDA_DeNovoClearance"
       /\ \/ BadDeNovoNumber(Get(kw, "de_novo_number", Missing))
          \/ BadProductCode(Get(kw, "product_code", Missing))
    \/ /\ op \in {"FDA_DeviceClassification", "FDA_ProductCode"}
       /\ BadProductCode(Get(kw, "product_code", Missing))
    \/ /\ op = "FDA_ManufacturerResponse"
       /\ Get(kw, "address", MissingAddress) \notin {MissingAddress, NoAddress}
       /\ BadCountryCode(Get(kw.address, "manufacturer_country", Missing))
    \/ /\ op = "RegulatorCreate"
       /\ BadCountryCode(Get(kw, "country_code", Missing))

Constructors ==
    {"FDA_510kClearance", "FDA_PMAClearance", "FDA_DeNovoClearance",
     "FDA_DeviceClassification", "FDA_ProductCode", "FDA_ManufacturerResponse",
     "RegulatorCreate"}

NoRecordProduced ==
    /\ clearance = NoRecord
    /\ classification = NoRecord
    /\ manufacturer = NoRecord
    /\ regulator = NoRecord

\* C14: a validation failure aborts the construction of the owning record:
\* when the validator of an identifier or of a country code fails, on the
\* record's own field or on a nested record (a predicate device's k_number,
\* an address's country code), the construction reports errors and no
\* record is produced.
C14_FailureAbortsConstruction ==
    (outcome.op \in Constructors /\ IdentifierValidatorFails(outcome.op, outcome.kwargs))
        => outcome.errors # {} /\ NoRecordProduced

\* A 510(k) clearance whose second predicate device has an invalid
\* k_number: refused as a whole.
C14_Witness ==
    /\ outcome.op = "FDA_510kClearance"
    /\ outcome.kwargs.k_number = <<"k","2","4","0","0","0","1">>
    /\ outcome.kwargs.predicate_devices
          = [cls |-> "list", items |-> <<ValidPredicate, InvalidPredicate>>]
    /\ outcome.errors = {[loc |-> "predicate_devices", type |-> "nested"]}
    /\ NoRecordProduced

\* The invariants of the stored identifiers, None being no identifier.
IsKNumber(v) == v = None \/ InKNumberLanguage(v)

IsPmaNumber(v) ==
    v = None \/ (/\ Len(v) = 7
                 /\ v[1] = "P"
                 /\ \A i \in 2..7 : IsDigit(v[i]))

IsProductCode(v) == v = None \/ (Len(v) = 3 /\ \A i \in 1..3 : IsUpperAZ(v[i]))

IsCountryCode(v) == v = None \/ v \in VALID_COUNTRY_CODES

\* C15: in every constructed FDA_510kClearance, FDA_PMAClearance,
\* FDA_DeNovoClearance, FDA_PredicateDevice, FDA_ProductCode,
\* FDA_DeviceClassification, FDA_ManufacturerAddress and regulator record,
\* each non-None K-number field matches (K|BK|DEN) + 6-7 digits, each PMA
\* number field matches P + 6 digits, each product code field is 3 uppercase
\* letters and each country code field is an allow-listed uppercase code.
C15_ValidatorsRunAtConstruction ==
    /\ (clearance # NoRecord /\ clearance.cls = "FDA_510kClearance") =>
          /\ IsKNumber(clearance.k_number)
          /\ IsProductCode(clearance.product_code)
          /\ clearance.predicate_devices # NoList =>
                \A i \in DOMAIN clearance.predicate_devices.items :
                    /\ IsKNumber(clearance.predicate_devices.items[i].k_number)
                    /\ IsPmaNumber(clearance.predicate_devices.items[i].pma_number)
    /\ (clearance # NoRecord /\ clearance.cls = "FDA_PMAClearance") =>
          /\ IsPmaNumber(clearance.pma_number)
          /\ IsProductCode(clearance.product_code)
    /\ (clearance # NoRecord /\ clearance.cls = "FDA_DeNovoClearance") =>
          /\ IsKNumber(clearance.de_novo_number)
          /\ IsProductCode(clearance.product_code)
          /\ IsProductCode(clearance.new_product_code)
    /\ classification # NoRecord => IsProductCode(classification.product_code)
    /\ (manufacturer # NoRecord /\ manufacturer.address # NoAddress) =>
          IsCountryCode(manufacturer.address.manufacturer_country)
    /\ regulator # NoRecord => IsCountryCode(regulator.country_code)

\* The country code of the manufacturer's address, when there is one.
HasAddress(m) == m # NoRecord /\ m.address # NoAddress

SuccessfulSetattr(o, fields) ==
    o.op = "setattr" /\ o.field \in fields /\ o.errors = {}

\* C17, as stated: once a regulator record or a manufacturer's address has
\* been constructed, no later operation changes its country code.
C17_CountryCodeImmutable_Original ==
    [][/\ regulator # NoRecord =>
             regulator'.country_code = regulator.country_code
       /\ (HasAddress(manufacturer) /\ HasAddress(manufacturer')) =>
             manufacturer'.address.manufacturer_country
                 = manufacturer.address.manufacturer_country]_vars

\* C17, amended: after construction the country code of a regulator record
\* or of a manufacturer's address changes only by an assignment that
\* validate_country_code accepts, and it then holds None or an allow-listed
\* uppercase code; an assignment that is refused changes nothing.
C17_CountryCodeChangesOnlyByValidAssignment ==
    [][/\ (regulator # NoRecord
            /\ regulator'.country_code # regulator.country_code) =>
             /\ SuccessfulSetattr(outcome', {"country_code"})
             /\ IsCountryCode(regulator'.country_code)
       /\ (/\ HasAddress(manufacturer) /\ HasAddress(manufacturer')
           /\ manufacturer'.address.manufacturer_country
                 # manufacturer.address.manufacturer_country) =>
             /\ SuccessfulSetattr(outcome', {"manufacturer_country", "address"})
             /\ IsCountryCode(manufacturer'.address.manufacturer_country)
       /\ (outcome'.op = "setattr" /\ outcome'.errors # {}) =>
             regulator' = regulator /\ manufacturer' = manufacturer]_vars

\* A regulator record after an accepted assignment to its country_code,
\* which now holds DE.
C17_Witness ==
    /\ regulator # NoRecord
    /\ outcome = [op |-> "setattr", field |-> "country_code", errors |-> {}]
    /\ regulator.country_code = <<"D","E">>

-----------------------------------------------------------------------------
(* Properties of the failure messages (SpecValidators)                     *)

\* The message of a failure formats the raw argument of the call in.
IncludesRawValue(failure, raw) == "value" \in DOMAIN failure /\ failure.value = raw

\* The messages that say what was expected of the value.
MessagesWithExpectedFormat ==
    {"Invalid country code '{value}': must be exactly 2 characters",
     "Invalid ISO 3166-1 country code '{value}'. Expected one of: {', '.join(sorted(VALID_COUNTRY_CODES))}",
     "Invalid 510(k) number format '{value}'. Expected K######, BK######, or DEN###### (6-7 digits)",
     "Invalid PMA number format '{value}'. Expected P###### (6 digits)",
     "Invalid product code format '{value}'. Expected 3 uppercase letters",
     "De Novo number must start with 'DEN'"}

\* C18: every failure raised by validate_country_code,
\* validate_k_number_format, validate_pma_number_format,
\* validate_product_code, ClearanceType.from_k_number and the De Novo prefix
\* check has a message that includes the offending raw value and the
\* expected format.
C18_MessagesIncludeValueAndFormat ==
    (/\ result # NoCall
     /\ result.out.kind = "raise"
     /\ result.fn = "validate_den" => InKNumberLanguage(Normalized(arg))) =>
        /\ IncludesRawValue(result.out, arg)
        /\ result.out.text \in MessagesWithExpectedFormat

\* C19: validate_country_code checks the length first: an input whose
\* normalized length is not 2 fails with the format error ("must be exactly
\* 2 characters"), never with the unknown-code error, and a 2-character
\* token outside the allow-list fails with the unknown-code error ("Invalid
\* ISO 3166-1 country code").
C19_CountryCodeErrorOrder ==
    (result # NoCall /\ result.fn = "validate_country_code" /\ arg # None) =>
        IF Len(Normalized(arg)) # 2
        THEN /\ result.out.kind = "raise"
             /\ result.out.text
                   = "Invalid country code '{value}': must be exactly 2 characters"
        ELSE IF Normalized(arg) \notin VALID_COUNTRY_CODES
        THEN /\ result.out.kind = "raise"
             /\ result.out.text
                   = "Invalid ISO 3166-1 country code '{value}'. Expected one of: {', '.join(sorted(VALID_COUNTRY_CODES))}"
        ELSE result.out.kind = "return"

\* "usa" is refused for its length.
C19_Witness ==
    /\ arg = <<"u","s","a">>
    /\ result # NoCall
    /\ result.fn = "validate_country_code"
    /\ result.out.kind = "raise"
    /\ result.out.text = "Invalid country code '{value}': must be exactly 2 characters"

-----------------------------------------------------------------------------
(* Properties of calls that run at the same time (SpecConcurrent)          *)

\* What the call returns or raises when it runs alone, from start to end.
Alone(fn, value) ==
    CASE fn = "validate_country_code" -> validate_country_code(value)
      [] fn = "validate_k_number_format" -> validate_k_number_format(value)
      [] fn = "validate_pma_number_format" -> validate_pma_number_format(value)
      [] fn = "validate_product_code" -> validate_product_code(value)
      [] fn = "from_k_number" -> from_k_number(value)

\* C20: validator calls are independent of each other: no call modifies
\* the allow-list, and under every interleaving of the statements of
\* concurrent calls each finished call has the result it has when it runs
\* alone, which depends on its own argument only.
C20_CallsAreIndependent ==
    /\ allow_list = VALID_COUNTRY_CODES
    /\ \A t \in DOMAIN threads :
          threads[t].pc = "done" =>
              threads[t].out = Alone(threads[t].fn, threads[t].arg)

\* A call that accepted " us\n" has finished while a call on "XX", started
\* before it ended, is about to look its code up.
C20_Witness ==
    /\ DOMAIN threads = ThreadIds
    /\ threads["t1"].fn = "validate_country_code"
    /\ threads["t1"].arg = <<" ","u","s","\n">>
    /\ threads["t1"].pc = "done"
    /\ threads["t1"].out = Return(<<"U","S">>)
    /\ threads["t2"].fn = "validate_country_code"
    /\ threads["t2"].arg = <<"X","X">>
    /\ threads["t2"].pc = "measured"

-----------------------------------------------------------------------------
(* Properties of the PMA-number and product-code validators and of the     *)
(* classifier's range (SpecValidators)                                     *)

\* P followed by exactly 6 digits, and nothing else.
InPmaLanguage(n) ==
    /\ Len(n) = 7
    /\ n[1] = "P"
    /\ \A i \in 2..7 : IsDigit(n[i])

\* C21: validate_pma_number_format returns None for None; for a string s
\* with n = s trimmed and uppercased it returns n when n is P followed by
\* exactly 6 digits, and raises for every other string.
C21_PmaLanguage ==
    result.fn = "validate_pma_number_format" =>
        IF arg = None THEN result.out = Return(None)
        ELSE IF InPmaLanguage(Normalized(arg))
             THEN result.out = Return(Normalized(arg))
             ELSE result.out.kind = "raise"

\* A padded lowercase PMA number was accepted and returned normalized.
C21_Witness ==
    /\ result.fn = "validate_pma_number_format"
    /\ arg = <<"\t","p","7","7","7","7","7","7","\n">>
    /\ result.out = Return(<<"P","7","7","7","7","7","7">>)

\* Exactly 3 letters A-Z.
InProductCodeLanguage(n) == Len(n) = 3 /\ \A i \in 1..3 : IsUpperAZ(n[i])

\* C22: validate_product_code returns None for None; for a string s with
\* n = s trimmed and uppercased it returns n when n is exactly 3 letters
\* A-Z, so a lowercase 3-letter input is returned uppercased, and raises for
\* every other string.
C22_ProductCodeLanguage ==
    result.fn = "validate_product_code" =>
        IF arg = None THEN result.out = Return(None)
        ELSE IF InProductCodeLanguage(Normalized(arg))
             THEN result.out = Return(Normalized(arg))
             ELSE result.out.kind = "raise"

\* The lowercase input " kbd" was accepted and returned as KBD.
C22_Witness ==
    /\ result.fn = "validate_product_code"
    /\ arg = <<" ","k","b","d">>
    /\ result.out = Return(<<"K","B","D">>)

-----------------------------------------------------------------------------
(* Properties of the device-class lookup (SpecClassification)              *)

DeviceClassLookups == {"risk_level", "regulatory_controls", "typical_submission"}

\* C23: the device-class lookup is total over the three classes: Class 1
\* gives Low Risk, [General Controls], Exempt or 510(k); Class 2 gives
\* Moderate Risk, [General Controls, Special Controls], 510(k); Class 3 gives
\* High Risk, [General Controls, Premarket Approval], PMA; no lookup fails.
C23_DeviceClassLookup ==
    result.fn \in DeviceClassLookups =>
        /\ result.self \in {<<"1">>, <<"2">>, <<"3">>}
        /\ result.out.kind = "return"
        /\ (result.fn = "risk_level" /\ result.self = <<"1">>)
              => result.out.value = "Low Risk"
        /\ (result.fn = "risk_level" /\ result.self = <<"2">>)
              => result.out.value = "Moderate Risk"
        /\ (result.fn = "risk_level" /\ result.self = <<"3">>)
              => result.out.value = "High Risk"
        /\ (result.fn = "regulatory_controls" /\ result.self = <<"1">>)
              => result.out.value = <<"General Controls">>
        /\ (result.fn = "regulatory_controls" /\ result.self = <<"2">>)
              => result.out.value = <<"General Controls", "Special Controls">>
        /\ (result.fn = "regulatory_controls" /\ result.self = <<"3">>)
              => result.out.value = <<"General Controls", "Premarket Approval">>
        /\ (result.fn = "typical_submission" /\ result.self = <<"1">>)
              => result.out.value = "Exempt or 510(k)"
        /\ (result.fn = "typical_submission" /\ result.self = <<"2">>)
              => result.out.value = "510(k)"
        /\ (result.fn = "typical_submission" /\ result.self = <<"3">>)
              => result.out.value = "PMA"

\* The risk level of a Class 3 record was looked up.
C23_Witness ==
    /\ result.fn = "risk_level"
    /\ result.self = <<"3">>
    /\ result.out = Return("High Risk")

\* C24: from_k_number never returns EUA, which is a member of ClearanceType:
\* for every input string the call returns 510(k), De Novo, PMA or HDE, or
\* raises.
C24_NeverEUA ==
    /\ "EUA" \in ClearanceType
    /\ result.fn = "from_k_number" =>
          /\ result.out # Return("EUA")
          /\ \/ result.out.kind = "raise"
             \/ result.out \in {Return("510(k)"), Return("De Novo"),
                                Return("PMA"), Return("HDE")}

\* An input with the prefix EUA was classified: the call raised.
C24_Witness ==
    /\ result.fn = "from_k_number"
    /\ StartsWith(Upper(arg), <<"E","U","A">>)
    /\ Len(arg) > 3
    /\ result.out.kind = "raise"

-----------------------------------------------------------------------------
(* Properties of the documents, of their summaries (SpecDocuments) and of  *)
(* their sections (SpecSections)                                           *)

SummaryCalls == {"DocumentSummaryBase.from_document", "EvidenceSummary.from_document"}

\* C25: from_document succeeds on every valid document, and the summary's
\* id, document_type, content_type, title, clinical_domain and tags, and for
\* an EvidenceSummary its authors, journal, publication_date, doi, abstract
\* and anatomical_region, are those of the document; created_at and
\* updated_at are those of its metadata_object; a document whose id is None
\* gives a summary whose id is the empty string.
C25_SummaryFlattens ==
    result.fn \in SummaryCalls =>
        /\ result.out.kind = "return"
        /\ result.out.value.id
              = (IF result.doc.id = None THEN <<>> ELSE result.doc.id)
        /\ \A f \in {"document_type", "content_type", "title", "clinical_domain",
                      "tags"} :
              result.out.value[f] = result.doc.metadata_content[f]
        /\ \A f \in {"created_at", "updated_at"} :
              result.out.value[f] = result.doc.metadata_object[f]
        /\ result.fn = "EvidenceSummary.from_document" =>
              \A f \in {"authors", "journal", "publication_date", "doi", "abstract",
                        "anatomical_region"} :
                  result.out.value[f] = result.doc.metadata_content[f]

\* An evidence document with no id and an abstract was summarised.
C25_Witness ==
    /\ result.fn = "EvidenceSummary.from_document"
    /\ result.doc.id = None
    /\ result.out.kind = "return"
    /\ result.out.value.id = <<>>
    /\ result.out.value.abstract = <<"A"," ","t","e","s","t"," ","a","b","s","t","r","a","c","t",".">>
    /\ result.out.value.tags.items = << <<"a","i">>, <<"c","t">> >>

\* C26: every section held by a document content, the default sections of
\* each content type included, has order >= 1.
C26_SectionOrderOneIndexed ==
    document # NoRecord =>
        \A k \in DOMAIN document.sections : document.sections[k].order >= 1

-----------------------------------------------------------------------------
(* Properties of validate_iso_date (SpecDates)                             *)

\* The date part of a date or of a datetime.
DatePart(v) == DateObj(v.year, v.month, v.day)

\* C27: validate_iso_date returns None for None, a date unchanged, the date
\* part of a datetime, and for a string the date that YYYY-MM-DD or, failing
\* that, MM/DD/YYYY gives; a string in neither format raises. What it
\* returns is None or a plain date, a value with no time component.
C27_IsoDate ==
    result.fn = "validate_iso_date" =>
        /\ arg.type = "NoneType" => result.out = Return(NoDate)
        /\ arg.type = "date" => result.out = Return(arg)
        /\ arg.type = "datetime" => result.out = Return(DatePart(arg))
        /\ arg.type = "str" =>
              IF ParseIso(arg.chars) # {}
              THEN result.out.kind = "return" /\ result.out.value \in ParseIso(arg.chars)
              ELSE IF ParseUs(arg.chars) # {}
              THEN result.out.kind = "return" /\ result.out.value \in ParseUs(arg.chars)
              ELSE result.out.kind = "raise"
        /\ result.out.kind = "return" => result.out.value.type \in {"NoneType", "date"}

-----------------------------------------------------------------------------
(* Properties of the assignments to validated fields (SpecAssignments)     *)

ValidatedFields == {"k_number", "product_code", "manufacturer_country"}

\* The value is one its validator returns as it is.
KeepsFormat(field, v) ==
    CASE field = "k_number" -> validate_k_number(v) = Return(v)
      [] field = "product_code" -> validate_product_code_field(v) = Return(v)
      [] field = "manufacturer_country" -> validate_country(v) = Return(v)

\* A str that is not in the format of the field, once stripped and
\* uppercased.
Malformed(field, raw) ==
    /\ raw # None
    /\ CASE field = "k_number" -> ~MatchKNumberPattern(Strip(Upper(raw)))
         [] field = "product_code" -> ~MatchProductCodePattern(Strip(Upper(raw)))
         [] field = "manufacturer_country" ->
                Strip(Upper(raw)) \notin VALID_COUNTRY_CODES

StoredFormats ==
    /\ clearance # NoRecord =>
          /\ KeepsFormat("k_number", clearance.k_number)
          /\ KeepsFormat("product_code", clearance.product_code)
    /\ (manufacturer # NoRecord /\ manufacturer.address # NoAddress) =>
          KeepsFormat("manufacturer_country", manufacturer.address.manufacturer_country)

MalformedAssignmentRaises ==
    (outcome'.op = "setattr" /\ outcome'.field \in ValidatedFields
        /\ Malformed(outcome'.field, arg')) =>
            /\ outcome'.errors # {}
            /\ clearance' = clearance
            /\ manufacturer' = manufacturer

\* C28: after any construction and assignments, the k_number and the
\* product_code of an FDA_510kClearance and the manufacturer_country of an
\* FDA_ManufacturerAddress hold a normalized value that their validator
\* accepts; the assignment of a malformed value raises, and the record then
\* holds what it held before.
C28_FormatKeptUnderMutation ==
    []StoredFormats /\ [][MalformedAssignmentRaises]_vars

\* A malformed k_number was assigned to a record and refused, and the record
\* holds the k_number it was constructed with.
C28_Witness ==
    /\ clearance # NoRecord
    /\ outcome.op = "setattr"
    /\ outcome.field = "k_number"
    /\ arg = <<"I","N","V","A","L","I","D","1","2","3">>
    /\ outcome.errors # {}
    /\ clearance.k_number = <<"K","2","4","0","0","0","1">>

-----------------------------------------------------------------------------
(* Idempotence of the validators (SpecValidators)                          *)

\* The validator that result.fn names, applied to v.
Validate(fn, v) ==
    CASE fn = "validate_country_code" -> validate_country_code(v)
      [] fn = "validate_k_number_format" -> validate_k_number_format(v)
      [] fn = "validate_pma_number_format" -> validate_pma_number_format(v)
      [] fn = "validate_product_code" -> validate_product_code(v)

\* C29: for validate_country_code, validate_k_number_format,
\* validate_pma_number_format and validate_product_code, and every input the
\* validator accepts, the validator applied to what it returned succeeds and
\* returns the same value.
C29_Idempotent ==
    (result.fn \in Validators /\ result.out.kind = "return") =>
        Validate(result.fn, result.out.value) = result.out

\* A padded lowercase PMA number was normalized, and the normalized number
\* is accepted again and returned as it is.
C29_Witness ==
    /\ result.fn = "validate_pma_number_format"
    /\ arg = <<" ","p","7","7","7","7","7","7">>
    /\ result.out = Return(<<"P","7","7","7","7","7","7">>)
    /\ validate_pma_number_format(result.out.value) = result.out

-----------------------------------------------------------------------------
(* Derived fields as keyword arguments (SpecRecords)                       *)

DerivedFields ==
    {"clearance_type", "is_de_novo", "is_cleared",
     "is_us_based", "applicant_is_manufacturer", "display_name"}

\* C30: a construction of an FDA_510kClearance or of an
\* FDA_ManufacturerResponse that gives a value to a derived field
\* (clearance_type, is_de_novo, is_cleared, is_us_based,
\* applicant_is_manufacturer, display_name) is refused with that argument
\* reported as an unknown field, and constructs no record.
C30_DerivedFieldsRefused ==
    outcome.op \in {"FDA_510kClearance", "FDA_ManufacturerResponse"} =>
        \A k \in DerivedFields \cap DOMAIN outcome.kwargs :
            /\ [loc |-> k, type |-> "extra_forbidden"] \in outcome.errors
            /\ clearance = NoRecord
            /\ manufacturer = NoRecord

\* A 510(k) clearance given a valid k_number and is_cleared=True was refused
\* for the one reason that is_cleared is no field.
C30_Witness ==
    /\ outcome.op = "FDA_510kClearance"
    /\ "is_cleared" \in DOMAIN outcome.kwargs
    /\ outcome.kwargs.is_cleared
    /\ outcome.kwargs.k_number = <<"k","2","4","0","0","0","1">>
    /\ outcome.errors = {[loc |-> "is_cleared", type |-> "extra_forbidden"]}
    /\ clearance = NoRecord

====
